---- MODULE Spec2Model ----
(***************************************************************************)
(* A model of the nonconstant-lcl-classifier: the label algebra            *)
(* (Configurations), the problem engine (LclProblem: purge, normalize,     *)
(* class enumeration), the SAT encoder and the search driver (find).       *)
(***************************************************************************)
EXTENDS Integers, Sequences, FiniteSets, TLC

VARIABLES
    task,        \* which entry point runs: "object", "relabel", "class", "encode", "find"
    problem,     \* an LclProblem: [active |-> Vec<Vec<u8>>, passive |-> Vec<Vec<u8>>]
    ops,         \* the last two operations applied to `problem` (oldest first)
    prev,        \* the value of `problem` before the last operation
    twin,        \* a second LclProblem: `problem` relabelled and reordered
    twinOps,     \* the operations applied to `twin`
    twinPrev,    \* the value of `twin` before its last operation
    generated,   \* the Vec<LclProblem> returned by generate_normalized, with its class
    allGraphs,   \* find: the flag all_graphs
    allSizes,    \* find: the flag all_graph_sizes
    outputSvg,   \* find: whether output_svg is given
    nLower,      \* find: min_nodes
    nUpper,      \* find: max_nodes
    graphs,      \* find: graphs[i] is the number of graphs of size nLower + i - 1
    tasks,       \* find: the state of the closure run for each problem
    phase,       \* find: "idle", "running", "collected" or "aborted"
    results,     \* find: the collected Vec<(LclProblem, usize)>
    statsLine,   \* find: <<X, Y>> of "Found new lower bounds for X/Y problems"
    graph,       \* encode: the BiregularGraph given to SatEncoder::new
    encoder,     \* encode: the SatEncoder
    clauses,     \* encode: the Clauses returned by encode
    satResult,   \* encode: the SatResult of the clauses
    dimacs,      \* encode: the text returned by clauses_into_cnf_dimacs
    genClass,    \* generate: <<graph_size, degree_a, degree_b>>
    threads,     \* generate: num_cpus::get()
    mainPc,      \* generate: where generate_multigraphs_parallel stands
    worker,      \* generate: where each spawned thread stands
    receiver,    \* generate: the batches sent and not yet received
    collected,   \* generate: the graphs the collector has received
    multigraphs, \* generate: the Vec<BiregularGraph> of generate_multigraphs
    encoding,    \* parse: the texts <<a, p>> given to from_string and LclProblem::new
    label_map,   \* parse: the HashMap<char, u8> supplied to from_string
    parsed,      \* parse: what the call made of the texts
    rendered,    \* parse: what to_string made of the parsed problem
    reparsed,    \* parse: what from_stdin's line parsing made of the rendered text
    permuted,    \* parse: what get_permutations returned for each side
    cacheKind,   \* cache: "problems" or "graphs", the batches the cache holds
    cacheParams, \* cache: the params of the calls, the key of the row
    cacheRow,    \* cache: the row of the key, or that no cache was supplied
    cachePc,     \* cache: where the call of get_or_generate stands
    cacheOut,    \* cache: the batch the call returned
    cacheCalls,  \* cache: the calls made with this cache, oldest first
    rows,        \* shared cache: the row of every key
    runs,        \* shared cache: the runs that use the cache, each with its calls
    stored,      \* shared cache: the batch first stored for every key
    genArgs,     \* candidates: <<active_degree, passive_degree, alphabet_length>>
    powersets,   \* candidates: the configuration powersets get_or_generate built
    cursor,      \* candidates: the pairs of the cartesian product already taken
    candidate,   \* candidates: the problem made of the clones of the current pair
    cloned,      \* candidates: the candidate as it was before purge
    iterations,  \* candidates: the iterations of purge's loop on the candidate
    yielded,     \* candidates: the problems that passed filter_map and unique
    candPc,      \* candidates: where get_or_generate stands
    runInput,    \* two runs: the flags, the graph lists and the solver's answers
    runOrder,    \* two runs: the order of the graphs inside each list, per run
    runClosures, \* two runs: what the closure of each problem returned, per run
    runPhase,    \* two runs: "running", "collected" or "aborted", per run
    runResults   \* two runs: the collected results, per run

problemVars == <<task, problem, ops, prev, twin, twinOps, twinPrev, generated>>

findVars == <<allGraphs, allSizes, outputSvg, nLower, nUpper, graphs, tasks, phase, results,
              statsLine>>

encodeVars == <<graph, encoder, clauses, satResult, dimacs>>

generateVars == <<genClass, threads, mainPc, worker, receiver, collected, multigraphs>>

parseVars == <<encoding, label_map, parsed, rendered, reparsed, permuted>>

cacheVars == <<cacheKind, cacheParams, cacheRow, cachePc, cacheOut, cacheCalls>>

sharedVars == <<rows, runs, stored>>

candidateVars == <<genArgs, powersets, cursor, candidate, cloned, iterations, yielded, candPc>>

runVars == <<runInput, runOrder, runClosures, runPhase, runResults>>

vars == <<problemVars, findVars, encodeVars, generateVars, parseVars, cacheVars, sharedVars,
          candidateVars, runVars>>

------------------------------------------------------------------------------
(* Bounds of the model.                                                     *)

\* Labels of the input problems are 0 .. NumLabels-1.
NumLabels == 3
\* An input Configurations holds at most MaxConfs configurations.
MaxConfs == 2

\* (active degree, passive degree) of the input problems.
Degrees == {<<1, 1>>, <<2, 1>>, <<1, 2>>}

\* The classes (active_degree, passive_degree, label_count) enumerated,
\* those of test_gen_normalized with their expected sizes, and one class
\* with three labels.
GenClasses == {<<1, 1, 1>>, <<1, 1, 2>>, <<2, 1, 2>>, <<2, 2, 2>>, <<1, 1, 3>>}

------------------------------------------------------------------------------
(* Vec helpers.                                                             *)

SeqToSet(s) == {s[i] : i \in 1..Len(s)}

RECURSIVE Flatten(_)
Flatten(ss) == IF ss = <<>> THEN <<>> ELSE Head(ss) \o Flatten(Tail(ss))

\* Itertools::join
RECURSIVE join(_, _)
join(pieces, sep) ==
    IF pieces = <<>> THEN <<>>
    ELSE IF Len(pieces) = 1 THEN pieces[1]
    ELSE pieces[1] \o sep \o join(Tail(pieces), sep)

\* Vec<u8> comparison: lexicographic, a proper prefix is smaller.
RECURSIVE VecLess(_, _)
VecLess(a, b) ==
    IF b = <<>> THEN FALSE
    ELSE IF a = <<>> THEN TRUE
    ELSE IF Head(a) < Head(b) THEN TRUE
    ELSE IF Head(a) > Head(b) THEN FALSE
    ELSE VecLess(Tail(a), Tail(b))

\* Vec<Vec<u8>> comparison (Configurations derives Ord on `data`).
RECURSIVE DataLess(_, _)
DataLess(a, b) ==
    IF b = <<>> THEN FALSE
    ELSE IF a = <<>> THEN TRUE
    ELSE IF VecLess(Head(a), Head(b)) THEN TRUE
    ELSE IF VecLess(Head(b), Head(a)) THEN FALSE
    ELSE DataLess(Tail(a), Tail(b))

\* itertools unique(): keeps the first occurrence of every element.
RECURSIVE UniqueFrom(_, _)
UniqueFrom(s, seen) ==
    IF s = <<>> THEN <<>>
    ELSE IF Head(s) \in seen THEN UniqueFrom(Tail(s), seen)
    ELSE <<Head(s)>> \o UniqueFrom(Tail(s), seen \cup {Head(s)})

unique(s) == UniqueFrom(s, {})

\* itertools combinations(k): k-subsequences in lexicographic index order.
RECURSIVE combinations(_, _)
combinations(s, k) ==
    IF k = 0 THEN << <<>> >>
    ELSE IF Len(s) < k THEN <<>>
    ELSE LET with == combinations(Tail(s), k - 1)
         IN  [i \in 1..Len(with) |-> <<Head(s)>> \o with[i]]
             \o combinations(Tail(s), k)

\* itertools combinations_with_replacement(k).
RECURSIVE combinations_with_replacement(_, _)
combinations_with_replacement(s, k) ==
    IF k = 0 THEN << <<>> >>
    ELSE IF s = <<>> THEN <<>>
    ELSE LET with == combinations_with_replacement(s, k - 1)
         IN  [i \in 1..Len(with) |-> <<Head(s)>> \o with[i]]
             \o combinations_with_replacement(Tail(s), k)

------------------------------------------------------------------------------
(* Label algebra: Configurations (data: Vec<Vec<u8>>).                      *)

get_labels_set(data) == UNION {SeqToSet(data[i]) : i \in 1..Len(data)}

\* permutation is a Vec<u8> indexed by label (0-based in the source).
map_labels(data, permutation) ==
    [i \in 1..Len(data) |->
        [j \in 1..Len(data[i]) |-> permutation[data[i][j] + 1]]]

sort_labels_inside_configuration(data) ==
    [i \in 1..Len(data) |-> SortSeq(data[i], <)]

sort_configurations(data) == SortSeq(data, VecLess)

\* A sort that forgets to sort the labels inside each configuration.
sort_configurations_only(data) == sort_configurations(data)

sort(data) == sort_configurations(sort_labels_inside_configuration(data))

remove_configurations_containing_label(data, labels) ==
    SelectSeq(data, LAMBDA c : SeqToSet(c) \cap labels = {})

generate_with_all_combinations(degree, alphabet) ==
    combinations_with_replacement(alphabet, degree)

\* The sizes 1..=limit of the powerset; generate_powerset uses every size.
PowersetUpTo(degree, alphabet_length, limit) ==
    LET alphabet == [i \in 1..alphabet_length |-> i - 1]
        all == generate_with_all_combinations(degree, alphabet)
        top == IF limit < Len(all) THEN limit ELSE Len(all)
    IN  Flatten([size \in 1..top |-> combinations(all, size)])

generate_powerset(degree, alphabet_length) ==
    LET alphabet == [i \in 1..alphabet_length |-> i - 1]
    IN  PowersetUpTo(degree, alphabet_length,
                     Len(generate_with_all_combinations(degree, alphabet)))

------------------------------------------------------------------------------
(* Problem engine: LclProblem.                                              *)

from_configurations(active, passive) == [active |-> active, passive |-> passive]

contains_empty_partition(p) == p.active = <<>> \/ p.passive = <<>>

\* One pass of the loop body instead of the loop.
purge_single_pass(p) ==
    LET active_labels == get_labels_set(p.active)
        passive_labels == get_labels_set(p.passive)
        diffA == active_labels \ passive_labels
        diffP == passive_labels \ active_labels
    IN  [active |-> remove_configurations_containing_label(p.active, diffA),
         passive |-> remove_configurations_containing_label(p.passive, diffP)]

\* The loop guarded by difference() instead of symmetric_difference().
RECURSIVE purge_until_active_covered(_)
purge_until_active_covered(p) ==
    LET active_labels == get_labels_set(p.active)
        passive_labels == get_labels_set(p.passive)
        diffA == active_labels \ passive_labels
        diffP == passive_labels \ active_labels
    IN  IF diffA = {} THEN p
        ELSE purge_until_active_covered(
                [active |-> remove_configurations_containing_label(p.active, diffA),
                 passive |-> remove_configurations_containing_label(p.passive, diffP)])

RECURSIVE purge(_)
purge(p) ==
    LET active_labels == get_labels_set(p.active)
        passive_labels == get_labels_set(p.passive)
        diffA == active_labels \ passive_labels
        diffP == passive_labels \ active_labels
    IN  IF active_labels = passive_labels THEN p
        ELSE purge([active |-> IF diffA # {}
                               THEN remove_configurations_containing_label(p.active, diffA)
                               ELSE p.active,
                    passive |-> IF diffP # {}
                                THEN remove_configurations_containing_label(p.passive, diffP)
                                ELSE p.passive])

SetMax(S) == CHOOSE x \in S : \A y \in S : y <= x

\* The labels 0..=label_max permuted, each permutation a Vec indexed by label.
PermutationTable ==
    [label_max \in 0..NumLabels |->
        {f \in [1..(label_max + 1) -> 0..label_max] :
            \A i, j \in 1..(label_max + 1) : f[i] = f[j] => i = j}]

LabelPermutations(label_max) == PermutationTable[label_max]

\* normalize panics (max() of no label, unwrap) when the problem has no label.
normalize_panics(p) == get_labels_set(p.active) \cup get_labels_set(p.passive) = {}

get_all_permutations(p) ==
    LET label_max == SetMax(get_labels_set(p.active) \cup get_labels_set(p.passive))
    IN  {[active |-> map_labels(p.active, perm),
          passive |-> map_labels(p.passive, perm)] : perm \in LabelPermutations(label_max)}

\* LclProblem's Ord: active first, then passive.
ProblemLess(x, y) ==
    \/ DataLess(x.active, y.active)
    \/ x.active = y.active /\ DataLess(x.passive, y.passive)

\* The sides sorted, the labels left as they are.
normalize_sort_only(p) == [active |-> sort(p.active), passive |-> sort(p.passive)]

\* The sides sorted before the labels are mapped instead of after.
normalize_sorted_too_early(p) ==
    LET problems == get_all_permutations([active |-> sort(p.active),
                                          passive |-> sort(p.passive)])
    IN  CHOOSE first \in problems : \A other \in problems : ~ProblemLess(other, first)

normalize(p) ==
    LET problems == {[active |-> sort(q.active), passive |-> sort(q.passive)] :
                        q \in get_all_permutations(p)}
    IN  CHOOSE first \in problems : \A other \in problems : ~ProblemLess(other, first)

get_or_generate(active_degree, passive_degree, alphabet_length) ==
    LET aps == generate_powerset(active_degree, alphabet_length)
        pps == IF active_degree = passive_degree THEN aps
               ELSE generate_powerset(passive_degree, alphabet_length)
        cartesian_product ==
            Flatten([i \in 1..Len(aps) |->
                        [j \in 1..Len(pps) |-> from_configurations(aps[i], pps[j])]])
        purged == [i \in 1..Len(cartesian_product) |-> purge(cartesian_product[i])]
    IN  unique(SelectSeq(purged, LAMBDA q : ~contains_empty_partition(q)))

\* The final unique() left out.
generate_normalized_not_deduplicated(active_degree, passive_degree, label_count) ==
    LET problems == get_or_generate(active_degree, passive_degree, label_count)
    IN  [i \in 1..Len(problems) |-> normalize(problems[i])]

generate_normalized(active_degree, passive_degree, label_count) ==
    LET problems == get_or_generate(active_degree, passive_degree, label_count)
    IN  unique([i \in 1..Len(problems) |-> normalize(problems[i])])

------------------------------------------------------------------------------
(* The input problems: what Configurations::generate_powerset builds,       *)
(* restricted to MaxConfs configurations per side.                          *)

ProblemsOfDegrees(D) ==
    UNION {{from_configurations(a, p) :
                a \in SeqToSet(PowersetUpTo(d[1], NumLabels, MaxConfs)),
                p \in SeqToSet(PowersetUpTo(d[2], NumLabels, MaxConfs))} : d \in D}

InputProblems == ProblemsOfDegrees(Degrees)

NoProblem == from_configurations(<<>>, <<>>)
NoClass == <<>>
NoCache == [state |-> "none", data |-> <<>>]
NoParse == [call |-> "none", outcome |-> "none", value |-> <<>>]

NoGraph == [partition_a |-> <<>>, partition_b |-> <<>>, edges |-> <<>>, newest_first |-> FALSE]
NoEncoder == [graph |-> NoGraph, active_permutations |-> <<>>,
              passive_permutations |-> <<>>, labels |-> {}]

\* No SatEncoder has been made.
EncodeIdle ==
    /\ graph = NoGraph
    /\ encoder = NoEncoder
    /\ clauses = <<>>
    /\ satResult = "none"
    /\ dimacs = <<>>

\* No generator of graphs has been called.
GenerateIdle ==
    /\ genClass = <<>>
    /\ threads = 0
    /\ mainPc = "none"
    /\ worker = <<>>
    /\ receiver = <<>>
    /\ collected = <<>>
    /\ multigraphs = [called |-> FALSE, graphs |-> <<>>]

\* Nothing has been parsed or rendered.
ParseIdle ==
    /\ encoding = <<>>
    /\ label_map = <<>>
    /\ parsed = NoParse
    /\ rendered = NoParse
    /\ reparsed = NoParse
    /\ permuted = <<>>

\* No get_or_generate has been called.
CacheIdle ==
    /\ cacheKind = "none"
    /\ cacheParams = <<>>
    /\ cacheRow = NoCache
    /\ cachePc = "none"
    /\ cacheOut = <<>>
    /\ cacheCalls = <<>>

\* No pair of runs is compared.
RunsIdle ==
    /\ runInput = <<>>
    /\ runOrder = <<>>
    /\ runClosures = <<>>
    /\ runPhase = <<>>
    /\ runResults = <<>>

\* get_or_generate has not been called.
CandidateIdle ==
    /\ genArgs = <<>>
    /\ powersets = <<>>
    /\ cursor = 0
    /\ candidate = NoProblem
    /\ cloned = NoProblem
    /\ iterations = 0
    /\ yielded = <<>>
    /\ candPc = "idle"

\* No run shares a cache.
SharedIdle ==
    /\ rows = <<>>
    /\ runs = <<>>
    /\ stored = <<>>

\* The search driver has not been started.
FindIdle ==
    /\ allGraphs = FALSE /\ allSizes = FALSE /\ outputSvg = FALSE
    /\ nLower = 1 /\ nUpper = 0
    /\ graphs = <<>>
    /\ tasks = <<>>
    /\ phase = "idle"
    /\ results = <<>>
    /\ statsLine = <<>>

------------------------------------------------------------------------------
(* Operations on one LclProblem object.                                     *)

Push(o, op) == <<o[2], op>>

InitObject ==
    /\ task = "object"
    /\ problem \in InputProblems
    /\ ops = <<"none", "new">>
    /\ prev = problem
    /\ twin = NoProblem
    /\ twinOps = <<>>
    /\ twinPrev = NoProblem
    /\ generated = [class |-> NoClass, problems |-> <<>>]
    /\ FindIdle
    /\ EncodeIdle
    /\ GenerateIdle
    /\ ParseIdle
    /\ CacheIdle
    /\ SharedIdle
    /\ CandidateIdle
    /\ RunsIdle

Purge ==
    /\ task = "object"
    /\ ops[2] # "panic"
    /\ problem' = purge(problem)
    /\ prev' = problem
    /\ ops' = Push(ops, "purge")
    /\ UNCHANGED <<task, twin, twinOps, twinPrev, generated>>
    /\ UNCHANGED findVars
    /\ UNCHANGED encodeVars
    /\ UNCHANGED generateVars
    /\ UNCHANGED parseVars
    /\ UNCHANGED cacheVars
    /\ UNCHANGED sharedVars
    /\ UNCHANGED candidateVars
    /\ UNCHANGED runVars

Normalize ==
    /\ task = "object"
    /\ ops[2] # "panic"
    /\ IF normalize_panics(problem)
       THEN /\ ops' = Push(ops, "panic")
            /\ UNCHANGED <<problem, prev>>
       ELSE /\ problem' = normalize(problem)
            /\ prev' = problem
            /\ ops' = Push(ops, "normalize")
    /\ UNCHANGED <<task, twin, twinOps, twinPrev, generated>>
    /\ UNCHANGED findVars
    /\ UNCHANGED encodeVars
    /\ UNCHANGED generateVars
    /\ UNCHANGED parseVars
    /\ UNCHANGED cacheVars
    /\ UNCHANGED sharedVars
    /\ UNCHANGED candidateVars
    /\ UNCHANGED runVars

InitClass ==
    /\ task = "class"
    /\ problem = NoProblem
    /\ ops = <<"none", "none">>
    /\ prev = NoProblem
    /\ twin = NoProblem
    /\ twinOps = <<>>
    /\ twinPrev = NoProblem
    /\ generated = [class |-> NoClass, problems |-> <<>>]
    /\ FindIdle
    /\ EncodeIdle
    /\ GenerateIdle
    /\ ParseIdle
    /\ CacheIdle
    /\ SharedIdle
    /\ CandidateIdle
    /\ RunsIdle

GenerateNormalized ==
    /\ task = "class"
    /\ \E c \in GenClasses :
          generated' = [class |-> c, problems |-> generate_normalized(c[1], c[2], c[3])]
    /\ UNCHANGED <<task, problem, ops, prev, twin, twinOps, twinPrev>>
    /\ UNCHANGED findVars
    /\ UNCHANGED encodeVars
    /\ UNCHANGED generateVars
    /\ UNCHANGED parseVars
    /\ UNCHANGED cacheVars
    /\ UNCHANGED sharedVars
    /\ UNCHANGED candidateVars
    /\ UNCHANGED runVars

InitProblem == InitObject \/ InitClass

NextProblem == Purge \/ Normalize \/ GenerateNormalized

SpecProblem == InitProblem /\ [][NextProblem]_vars

------------------------------------------------------------------------------
(* Two objects, as in test_normalize: `twin` is `problem` with its labels   *)
(* renamed by a bijection on [0, max_label] and with the configurations,    *)
(* or the labels inside them, written in another order.                     *)

Reverse(s) == [i \in 1..Len(s) |-> s[Len(s) + 1 - i]]

Reorderings == SUBSET {"configurations", "labels"}

reorder(data, r) ==
    LET inner == IF "labels" \in r
                 THEN [i \in 1..Len(data) |-> Reverse(data[i])]
                 ELSE data
    IN  IF "configurations" \in r THEN Reverse(inner) ELSE inner

RelabelDegrees == {<<1, 1>>, <<2, 1>>}

InitRelabel ==
    /\ task = "relabel"
    /\ problem \in ProblemsOfDegrees(RelabelDegrees)
    /\ ops = <<"none", "new">>
    /\ prev = problem
    /\ \E perm \in LabelPermutations(
                SetMax(get_labels_set(problem.active) \cup get_labels_set(problem.passive))),
          ra \in Reorderings, rp \in Reorderings :
          twin = [active |-> reorder(map_labels(problem.active, perm), ra),
                  passive |-> reorder(map_labels(problem.passive, perm), rp)]
    /\ twinOps = <<>>
    /\ twinPrev = twin
    /\ generated = [class |-> NoClass, problems |-> <<>>]
    /\ FindIdle
    /\ EncodeIdle
    /\ GenerateIdle
    /\ ParseIdle
    /\ CacheIdle
    /\ SharedIdle
    /\ CandidateIdle
    /\ RunsIdle

NormalizeProblem ==
    /\ task = "relabel"
    /\ ops[2] = "new"
    /\ problem' = normalize(problem)
    /\ prev' = problem
    /\ ops' = Push(ops, "normalize")
    /\ UNCHANGED <<task, twin, twinOps, twinPrev, generated>>
    /\ UNCHANGED findVars
    /\ UNCHANGED encodeVars
    /\ UNCHANGED generateVars
    /\ UNCHANGED parseVars
    /\ UNCHANGED cacheVars
    /\ UNCHANGED sharedVars
    /\ UNCHANGED candidateVars
    /\ UNCHANGED runVars

NormalizeTwin ==
    /\ task = "relabel"
    /\ ops[2] = "normalize"
    /\ twinOps = <<>>
    /\ twin' = normalize(twin)
    /\ twinPrev' = twin
    /\ twinOps' = <<"normalize">>
    /\ UNCHANGED <<task, problem, ops, prev, generated>>
    /\ UNCHANGED findVars
    /\ UNCHANGED encodeVars
    /\ UNCHANGED generateVars
    /\ UNCHANGED parseVars
    /\ UNCHANGED cacheVars
    /\ UNCHANGED sharedVars
    /\ UNCHANGED candidateVars
    /\ UNCHANGED runVars

NextRelabel == NormalizeProblem \/ NormalizeTwin

SpecRelabel == InitRelabel /\ [][NextRelabel]_vars

------------------------------------------------------------------------------
(* Claims about the problem engine.                                         *)

\* C2: normalize gives the same (active, passive) pair for a problem and for
\* the problem with its labels renamed by a bijection on [0, max_label] and
\* its configurations, or the labels inside them, reordered.
C2_NormalizeRespectsRelabeling ==
    (task = "relabel" /\ ops[2] = "normalize" /\ twinOps = <<"normalize">>)
        => problem = twin

\* A renamed and reordered twin that differed from the problem on both sides
\* before the two were normalized.
C2_Witness ==
    /\ task = "relabel" /\ ops[2] = "normalize" /\ twinOps = <<"normalize">>
    /\ twinPrev.active # prev.active
    /\ twinPrev.passive # prev.passive
    /\ sort(twinPrev.active) # sort(prev.active)
    /\ problem = twin

\* C3: normalize is idempotent: a second normalize of a problem with two
\* non-empty sides changes neither the active nor the passive list.
C3_NormalizeIdempotent ==
    (task = "object" /\ ops = <<"normalize", "normalize">>
        /\ ~contains_empty_partition(prev))
        => (problem.active = prev.active /\ problem.passive = prev.passive)

\* A second normalize of a problem with several labels and configurations.
C3_Witness ==
    /\ task = "object" /\ ops = <<"normalize", "normalize">>
    /\ ~contains_empty_partition(prev)
    /\ Cardinality(get_labels_set(prev.active)) >= 2
    /\ Len(prev.active) >= 2
    /\ problem = prev

\* C4: purge is a fixpoint: a purge of a purged problem removes no
\* configuration from either side.
C4_PurgeFixpoint ==
    (task = "object" /\ ops = <<"purge", "purge">>)
        => (problem.active = prev.active /\ problem.passive = prev.passive)

\* A second purge of a purged problem that still has configurations.
C4_Witness ==
    /\ task = "object" /\ ops = <<"purge", "purge">>
    /\ ~contains_empty_partition(prev)
    /\ problem = prev

\* C5: when purge returns, the labels of the active configurations are the
\* labels of the passive configurations; when a side is empty, both are.
C5_PurgedLabelSetsEqual ==
    (task = "object" /\ ops[2] = "purge")
        => /\ get_labels_set(problem.active) = get_labels_set(problem.passive)
           /\ (contains_empty_partition(problem)
                 => (problem.active = <<>> /\ problem.passive = <<>>))

\* A purge that removed configurations from both sides and left both non-empty.
C5_Witness ==
    /\ task = "object" /\ ops[2] = "purge"
    /\ Len(problem.active) < Len(prev.active)
    /\ Len(problem.passive) < Len(prev.passive)
    /\ ~contains_empty_partition(problem)
    /\ get_labels_set(problem.active) = get_labels_set(problem.passive)

\* C6: the problems generate_normalized returns are pairwise distinct, each
\* has two non-empty sides and each equals its own normalization.
C6_GeneratedNormalizedDistinct ==
    generated.class # NoClass =>
        LET ps == generated.problems
        IN  /\ \A i, j \in 1..Len(ps) : ps[i] = ps[j] => i = j
            /\ \A i \in 1..Len(ps) : ~contains_empty_partition(ps[i])
            /\ \A i \in 1..Len(ps) : normalize(ps[i]) = ps[i]

\* The class (2, 2, 2), which normalizes 27 purged problems into 18.
C6_Witness ==
    /\ generated.class = <<2, 2, 2>>
    /\ Len(get_or_generate(2, 2, 2)) > Len(generated.problems)
    /\ Len(generated.problems) > 1

------------------------------------------------------------------------------
(* The search driver: find.  Every problem is the input of one closure of   *)
(* the parallel iterator; a closure runs the size loop and, inside it, the  *)
(* encoder loop, one SAT call per graph.                                    *)

\* The problems Vec holds two problems.
FindProblems == {1, 2}

\* min_nodes and max_nodes lie in 1..MaxN.
MaxN == 3
\* The graph lists of all sizes together hold at most MaxGraphs graphs.
MaxGraphs == 3

RECURSIVE SumSeq(_)
SumSeq(s) == IF s = <<>> THEN 0 ELSE Head(s) + SumSeq(Tail(s))

\* graphs.push(graphs_n) for n in n_lower..=n_upper: one list per size.
GraphLists(n_lower, n_upper) ==
    LET count == IF n_upper >= n_lower THEN n_upper - n_lower + 1 ELSE 0
    IN  {gs \in [1..count -> 0..MaxGraphs] : SumSeq(gs) <= MaxGraphs}

\* The lists pushed for the sizes in descending order.
node_count_descending(i) == nUpper - i + 1

\* graph.graph.node_count() of a graph of the i-th list.
node_count(i) == nLower + i - 1

\* What kissat_rs::Solver::decide_formula returns.
Decisions == {"Ok(true)", "Ok(false)", "Err"}

\* SatSolver::solve: unwrap() of the decision, then the match.
solve(decision) ==
    CASE decision = "Ok(true)" -> "Satisfiable"
      [] decision = "Ok(false)" -> "Unsatisfiable"
      [] decision = "Err" -> "panic"

\* What can happen to the writing of one svg: nothing, or a failure of
\* create_dir_all, of the dot pipeline, or of the file.
SvgOutcomes == {"Ok", "create_dir_all", "dot", "File::create"}

\* save_as_svg(path, dot): the pipeline's expect()s panic, a failure of
\* File::create or write_all is returned.
save_as_svg(io) ==
    CASE io = "dot" -> "panic"
      [] io = "File::create" -> "Err"
      [] OTHER -> "Ok"

\* The block `if let Some(path_dir) = ... output_svg`: create_dir_all(..)
\* .unwrap(), then save_as_svg(..).expect(..).
output_svg(io) ==
    IF io = "create_dir_all" THEN "panic"
    ELSE IF save_as_svg(io) # "Ok" THEN "panic"
    ELSE "Ok"

\* `if result == SatResult::Satisfiable { continue; }`
is_witness(result) == result # "Satisfiable"

\* The encoder loop never left early.
breaks_encoder_loop_never(all_graphs) == FALSE

\* `if !matches_find.is_present("all_graphs") { break 'encoder_loop; }`
breaks_encoder_loop(all_graphs) == ~all_graphs

\* The flag all_graph_sizes ignored.
breaks_graph_size_loop_on_found(found, all_graph_sizes) == found > 0

\* The count of witnesses ignored.
breaks_graph_size_loop_on_flag(found, all_graph_sizes) == ~all_graph_sizes

\* `if found > 0 && !matches_find.is_present("all_graph_sizes") { break 'graph_size_loop; }`
breaks_graph_size_loop(found, all_graph_sizes) == found > 0 /\ ~all_graph_sizes

\* The non-proven entry pushed whatever the results hold.
push_nonproven_always(task_results) == Append(task_results, 0)

\* `if results.is_empty() { results.push((problem.clone(), 0)); }`
push_nonproven(task_results) ==
    IF task_results = <<>> THEN <<0>> ELSE task_results

\* The closure as it starts: `let mut results = vec![];`
NewTask ==
    [pc |-> "graph_size_loop",
     i |-> 0,            \* index of the current list of graphs
     g |-> 0,            \* graphs of the current list taken by the encoder loop
     found |-> 0,
     svg |-> "none",     \* history: the failure that ended the writing of an svg
     results |-> <<>>,   \* the second components of the pairs pushed
     solved |-> <<>>,    \* history: <<size, graph_index, result>> of every SAT call
     visited |-> <<>>,   \* history: the sizes whose loop body was entered
     ended |-> {}]       \* history: the sizes whose encoder loop was left

ProblemIdle ==
    /\ problem = NoProblem
    /\ ops = <<"none", "none">>
    /\ prev = NoProblem
    /\ twin = NoProblem
    /\ twinOps = <<>>
    /\ twinPrev = NoProblem
    /\ generated = [class |-> NoClass, problems |-> <<>>]

InitFind ==
    /\ task = "find"
    /\ ProblemIdle
    /\ EncodeIdle
    /\ GenerateIdle
    /\ ParseIdle
    /\ CacheIdle
    /\ SharedIdle
    /\ CandidateIdle
    /\ RunsIdle
    /\ allGraphs \in BOOLEAN
    /\ allSizes \in BOOLEAN
    /\ outputSvg \in BOOLEAN
    /\ nLower \in 1..MaxN
    /\ nUpper \in 1..MaxN
    /\ graphs \in GraphLists(nLower, nUpper)
    /\ tasks = [p \in FindProblems |-> NewTask]
    /\ phase = "running"
    /\ results = <<>>
    /\ statsLine = <<>>

\* The head of 'graph_size_loop: the next list of graphs, or the end of the
\* closure when there is none.
GraphSizeLoop(p) ==
    LET t == tasks[p] IN
    /\ phase = "running"
    /\ t.pc = "graph_size_loop"
    /\ tasks' = [tasks EXCEPT ![p] =
                    IF t.i < Len(graphs)
                    THEN [t EXCEPT !.pc = "encoder_loop", !.i = t.i + 1, !.g = 0,
                                   !.found = 0,
                                   !.visited = Append(t.visited, node_count(t.i + 1))]
                    ELSE [t EXCEPT !.pc = "returned",
                                   !.results = push_nonproven(t.results)]]
    /\ UNCHANGED <<allGraphs, allSizes, outputSvg, nLower, nUpper, graphs, phase, results,
                   statsLine>>
    /\ UNCHANGED problemVars
    /\ UNCHANGED encodeVars
    /\ UNCHANGED generateVars
    /\ UNCHANGED parseVars
    /\ UNCHANGED cacheVars
    /\ UNCHANGED sharedVars
    /\ UNCHANGED candidateVars
    /\ UNCHANGED runVars

\* One iteration of 'encoder_loop: encode, solve, and the handling of the result.
EncoderLoop(p) ==
    LET t == tasks[p] IN
    /\ phase = "running"
    /\ t.pc = "encoder_loop"
    /\ t.g < graphs[t.i]
    /\ \E decision \in Decisions :
          LET result == solve(decision)
              n == node_count(t.i)
              called == [t EXCEPT !.g = t.g + 1,
                                  !.solved = Append(t.solved, <<n, t.g + 1, result>>)]
              pushed == [called EXCEPT !.found = t.found + 1,
                                       !.results = Append(t.results, n)]
          IN  \E io \in IF outputSvg /\ result # "panic" /\ is_witness(result)
                        THEN SvgOutcomes ELSE {"Ok"} :
                  tasks' = [tasks EXCEPT ![p] =
                      IF result = "panic"
                      THEN [called EXCEPT !.pc = "panicked"]
                      ELSE IF ~is_witness(result)
                      THEN called
                      ELSE IF output_svg(io) = "panic"
                      THEN [pushed EXCEPT !.pc = "panicked", !.svg = io]
                      ELSE [pushed EXCEPT !.pc = IF breaks_encoder_loop(allGraphs)
                                                 THEN "after_encoder_loop"
                                                 ELSE "encoder_loop"]]
    /\ UNCHANGED <<allGraphs, allSizes, outputSvg, nLower, nUpper, graphs, phase, results,
                   statsLine>>
    /\ UNCHANGED problemVars
    /\ UNCHANGED encodeVars
    /\ UNCHANGED generateVars
    /\ UNCHANGED parseVars
    /\ UNCHANGED cacheVars
    /\ UNCHANGED sharedVars
    /\ UNCHANGED candidateVars
    /\ UNCHANGED runVars

\* The encoder loop is left (no graph remains, or break 'encoder_loop): the
\* test that ends the size loop, and with it the closure.
EndEncoderLoop(p) ==
    LET t == tasks[p] IN
    /\ phase = "running"
    /\ \/ t.pc = "encoder_loop" /\ t.g = graphs[t.i]
       \/ t.pc = "after_encoder_loop"
    /\ tasks' = [tasks EXCEPT ![p] =
                    IF breaks_graph_size_loop(t.found, allSizes)
                    THEN [t EXCEPT !.pc = "returned",
                                   !.results = push_nonproven(t.results),
                                   !.ended = t.ended \cup {node_count(t.i)}]
                    ELSE [t EXCEPT !.pc = "graph_size_loop",
                                   !.ended = t.ended \cup {node_count(t.i)}]]
    /\ UNCHANGED <<allGraphs, allSizes, outputSvg, nLower, nUpper, graphs, phase, results,
                   statsLine>>
    /\ UNCHANGED problemVars
    /\ UNCHANGED encodeVars
    /\ UNCHANGED generateVars
    /\ UNCHANGED parseVars
    /\ UNCHANGED cacheVars
    /\ UNCHANGED sharedVars
    /\ UNCHANGED candidateVars
    /\ UNCHANGED runVars

\* flat_map + collect: the results of the closures, in the order of the problems.
RECURSIVE FlatMap(_, _)
FlatMap(ts, ps) ==
    IF ps = {} THEN <<>>
    ELSE LET p == CHOOSE q \in ps : \A r \in ps : q <= r
         IN  [k \in 1..Len(ts[p].results) |-> <<p, ts[p].results[k]>>]
             \o FlatMap(ts, ps \ {p})

\* The arguments of the find subcommand.
find_args ==
    {"min_nodes", "max_nodes", "progress", "all_graphs", "all_graph_sizes", "output_svg",
     "print_stats", "sqlite_cache", "write_nonproven_result"}

\* The arguments given to a run that prints the stats.
matches_find ==
    {"min_nodes", "max_nodes", "print_stats"}
        \cup (IF allGraphs THEN {"all_graphs"} ELSE {})
        \cup (IF allSizes THEN {"all_graph_sizes"} ELSE {})
        \cup (IF outputSvg THEN {"output_svg"} ELSE {})

\* ArgMatches::is_present: whether the argument of that name was given.
is_present(name) == name \in matches_find \cap find_args

\* The test of the flags all_graphs and all_graph_sizes in place of "all".
counts_unique_problems_under_all_flags ==
    is_present("all_graphs") \/ is_present("all_graph_sizes")

\* `matches_find.is_present("all")` in print_stats
counts_unique_problems == is_present("all")

\* results.into_iter().partition(|(_, n)| *n == 0), the second part
proven_results(res) == SelectSeq(res, LAMBDA e : e[2] # 0)

\* results.into_iter().partition(|(_, n)| *n == 0), the first part
nonproven_results(res) == SelectSeq(res, LAMBDA e : e[2] = 0)

\* The numbers of "Found new lower bounds for {}/{} problems".
print_stats(res) ==
    LET proven == proven_results(res)
        new_uniques_len ==
            IF counts_unique_problems
            THEN Cardinality({proven[k][1] : k \in 1..Len(proven)})
            ELSE Len(proven)
    IN  <<new_uniques_len, Len(nonproven_results(res)) + new_uniques_len>>

\* collect(), and the rest of find: the stats are printed from the results.
Collect ==
    /\ phase = "running"
    /\ \A p \in FindProblems : tasks[p].pc = "returned"
    /\ results' = FlatMap(tasks, FindProblems)
    /\ statsLine' = print_stats(FlatMap(tasks, FindProblems))
    /\ phase' = "collected"
    /\ UNCHANGED <<allGraphs, allSizes, outputSvg, nLower, nUpper, graphs, tasks>>
    /\ UNCHANGED problemVars
    /\ UNCHANGED encodeVars
    /\ UNCHANGED generateVars
    /\ UNCHANGED parseVars
    /\ UNCHANGED cacheVars
    /\ UNCHANGED sharedVars
    /\ UNCHANGED candidateVars
    /\ UNCHANGED runVars

\* A closure panicked: the panic leaves find, nothing is collected.
Abort ==
    /\ phase = "running"
    /\ \E p \in FindProblems : tasks[p].pc = "panicked"
    /\ phase' = "aborted"
    /\ UNCHANGED <<allGraphs, allSizes, outputSvg, nLower, nUpper, graphs, tasks, results,
                   statsLine>>
    /\ UNCHANGED problemVars
    /\ UNCHANGED encodeVars
    /\ UNCHANGED generateVars
    /\ UNCHANGED parseVars
    /\ UNCHANGED cacheVars
    /\ UNCHANGED sharedVars
    /\ UNCHANGED candidateVars
    /\ UNCHANGED runVars

NextFind ==
    \/ \E p \in FindProblems : GraphSizeLoop(p)
    \/ \E p \in FindProblems : EncoderLoop(p)
    \/ \E p \in FindProblems : EndEncoderLoop(p)
    \/ Collect
    \/ Abort

SpecFind == InitFind /\ [][NextFind]_vars

------------------------------------------------------------------------------
(* Claims about the search driver.                                          *)

Count(seq, x) == Cardinality({k \in 1..Len(seq) : seq[k] = x})

Sizes == {node_count(i) : i \in 1..Len(graphs)}

\* The number of graphs of size n.
GraphsOfSize(n) == graphs[CHOOSE i \in 1..Len(graphs) : node_count(i) = n]

SolvedOf(t, n) == {e \in SeqToSet(t.solved) : e[1] = n}
UnsatOf(t, n) == {e \in SolvedOf(t, n) : e[3] = "Unsatisfiable"}
WitnessesOf(t) == SelectSeq(t.results, LAMBDA n : n # 0)

\* C7: with all_graphs off a problem gets at most one witness per size and no
\* graph after the first UNSAT graph of a size is solved; with all_graphs on
\* every graph of a size whose encoder loop ended was solved and every UNSAT
\* graph has exactly one witness.
C7_AllGraphsFlag ==
    task = "find" =>
        \A p \in FindProblems :
            LET t == tasks[p] IN
            /\ ~allGraphs =>
                  \A n \in Sizes :
                     /\ Count(t.results, n) <= 1
                     /\ \A e \in UnsatOf(t, n) : \A f \in SolvedOf(t, n) : f[2] <= e[2]
            /\ allGraphs =>
                  \A n \in Sizes :
                     /\ Count(t.results, n) = Cardinality(UnsatOf(t, n))
                     /\ n \in t.ended =>
                           \A g \in 1..GraphsOfSize(n) : \E e \in SolvedOf(t, n) : e[2] = g

\* all_graphs off: a size with three graphs, the first SAT, the second UNSAT,
\* the third never solved.
C7_Witness ==
    /\ task = "find" /\ ~allGraphs
    /\ \E p \in FindProblems : \E n \in Sizes :
          /\ GraphsOfSize(n) = 3
          /\ n \in tasks[p].ended
          /\ SolvedOf(tasks[p], n) = {<<n, 1, "Satisfiable">>, <<n, 2, "Unsatisfiable">>}
          /\ Count(tasks[p].results, n) = 1

\* C8: with all_graph_sizes off no size larger than the first size with a
\* witness is visited and all witnesses of a problem carry the same n; with
\* all_graph_sizes on a closure that returned visited every size of
\* [n_lower, n_upper].
C8_AllSizesFlag ==
    task = "find" =>
        \A p \in FindProblems :
            LET t == tasks[p]
                ws == SeqToSet(WitnessesOf(t))
            IN
            /\ ~allSizes =>
                  /\ Cardinality(ws) <= 1
                  /\ \A w \in ws : \A n \in SeqToSet(t.visited) : n <= w
            /\ (allSizes /\ t.pc = "returned") =>
                  SeqToSet(t.visited) = {n \in nLower..nUpper : TRUE}

\* all_graph_sizes off: a witness at a size after the first and before the
\* last, whose list of graphs is not empty.
C8_Witness ==
    /\ task = "find" /\ ~allSizes
    /\ \E p \in FindProblems : \E w \in Sizes :
          /\ tasks[p].pc = "returned"
          /\ tasks[p].results = <<w>>
          /\ nLower < w /\ w < nUpper
          /\ GraphsOfSize(nUpper) > 0
          /\ GraphsOfSize(nLower) > 0

EntriesOf(p) == SelectSeq(results, LAMBDA e : e[1] = p)

\* C9: in the collected results a problem has the entry (problem, 0) exactly
\* when it has no witness, and then once; no problem has both; every problem
\* has an entry; the witnesses are the UNSAT results of its SAT calls.
C9_NonProvenEntry ==
    phase = "collected" =>
        \A p \in FindProblems :
            LET es == EntriesOf(p)
                zeros == Cardinality({k \in 1..Len(es) : es[k][2] = 0})
                wits == Cardinality({k \in 1..Len(es) : es[k][2] # 0})
                unsat == Cardinality({k \in 1..Len(tasks[p].solved) :
                                        tasks[p].solved[k][3] = "Unsatisfiable"})
            IN  /\ wits = unsat
                /\ zeros = (IF wits = 0 THEN 1 ELSE 0)
                /\ ~(zeros > 0 /\ wits > 0)
                /\ Len(es) >= 1

\* Collected results with a non-proven problem that had SAT calls and a
\* problem with a witness.
C9_Witness ==
    /\ phase = "collected"
    /\ \E p, q \in FindProblems :
          /\ EntriesOf(p) = <<<<p, 0>>>>
          /\ tasks[p].solved # <<>>
          /\ \E k \in 1..Len(results) : results[k][1] = q /\ results[k][2] # 0

\* <<n, g>> pairs in lexicographic order.
Before(e, f) == e[1] < f[1] \/ (e[1] = f[1] /\ e[2] < f[2])

\* C10: a closure visits the sizes in ascending order and the graphs of a
\* size in the order of the list; with all_graph_sizes off every witness
\* carries the smallest size with an UNSAT graph: every graph of every
\* smaller size was solved and was SAT, and nothing UNSAT was solved while
\* there is no witness.
C10_AscendingOrder ==
    task = "find" =>
        \A p \in FindProblems :
            LET t == tasks[p] IN
            /\ \A k, l \in 1..Len(t.visited) : k < l => t.visited[k] < t.visited[l]
            /\ \A k \in 1..Len(t.visited) : t.visited[k] = nLower + k - 1
            /\ \A k, l \in 1..Len(t.solved) : k < l => Before(t.solved[k], t.solved[l])
            /\ (WitnessesOf(t) = <<>>) =>
                  \A k \in 1..Len(t.solved) : t.solved[k][3] # "Unsatisfiable"
            /\ ~allSizes =>
                  \A w \in SeqToSet(WitnessesOf(t)) :
                     /\ UnsatOf(t, w) # {}
                     /\ \A n \in nLower..(w - 1) : \A g \in 1..GraphsOfSize(n) :
                           <<n, g, "Satisfiable">> \in SeqToSet(t.solved)

\* all_graph_sizes off: a witness at the second graph of a size, after a
\* smaller size whose graph was SAT.
C10_Witness ==
    /\ task = "find" /\ ~allSizes
    /\ \E p \in FindProblems : \E w \in Sizes :
          /\ tasks[p].pc = "returned"
          /\ WitnessesOf(tasks[p]) = <<w>>
          /\ w > nLower
          /\ GraphsOfSize(nLower) > 0
          /\ <<w, 2, "Unsatisfiable">> \in SeqToSet(tasks[p].solved)

------------------------------------------------------------------------------
(* The SAT encoder: SatEncoder::new, encode, and the solver on its clauses.  *)

\* (active degree, passive degree) of the encoded problems.
EncodeDegrees == {<<1, 1>>, <<2, 1>>, <<1, 2>>, <<2, 2>>}

EncodeProblems == ProblemsOfDegrees(EncodeDegrees)

\* BiregularGraph: the two partitions hold node indices, edges[k] joins two
\* nodes and has edge index k - 1. newest_first tells the order in which
\* graph.edges(node) yields the incident edges.
Graph(partition_a, partition_b, edges, newest_first) ==
    [partition_a |-> partition_a, partition_b |-> partition_b,
     edges |-> edges, newest_first |-> newest_first]

\* Small biregular multigraphs: one edge, two edges apart, the path with an
\* active and with a passive centre, the double edge, the 4-cycle.
EncodeGraphs ==
    {Graph(g[1], g[2], g[3], nf) :
        g \in {<< <<0>>, <<1>>, << <<0, 1>> >> >>,
               << <<0, 2>>, <<1, 3>>, << <<0, 1>>, <<2, 3>> >> >>,
               << <<0>>, <<1, 2>>, << <<0, 1>>, <<0, 2>> >> >>,
               << <<1, 2>>, <<0>>, << <<0, 1>>, <<0, 2>> >> >>,
               << <<0>>, <<1>>, << <<0, 1>>, <<0, 1>> >> >>,
               << <<0, 1>>, <<2, 3>>,
                  << <<0, 2>>, <<0, 3>>, <<1, 2>>, <<1, 3>> >> >>},
        nf \in BOOLEAN}

\* graph.edges(node): the indices of the edges incident to node.
edges(g, node) ==
    LET asc == SelectSeq([k \in 1..Len(g.edges) |-> k - 1],
                         LAMBDA e : node \in SeqToSet(g.edges[e + 1]))
    IN  IF g.newest_first THEN Reverse(asc) ELSE asc

degree(g, node) == Len(edges(g, node))

\* The graph is biregular with the degrees of the problem's configurations.
degrees_match(lcl_problem, g) ==
    /\ \A i \in 1..Len(g.partition_a) :
          degree(g, g.partition_a[i]) = Len(lcl_problem.active[1])
    /\ \A i \in 1..Len(g.partition_b) :
          degree(g, g.partition_b[i]) = Len(lcl_problem.passive[1])

RemoveAt(x, i) == [k \in 1..(Len(x) - 1) |-> IF k < i THEN x[k] ELSE x[k + 1]]

\* itertools permutations(k) with k = x.len(): lexicographic in the positions.
RECURSIVE permutations(_)
permutations(x) ==
    IF x = <<>> THEN << <<>> >>
    ELSE Flatten([i \in 1..Len(x) |->
            LET rest == permutations(RemoveAt(x, i))
            IN  [k \in 1..Len(rest) |-> <<x[i]>> \o rest[k]]])

\* The pairs of two positions in ascending order only.
permutations_2_ascending(x) == combinations(x, 2)

\* itertools permutations(2): the ordered pairs of two distinct positions.
permutations_2(x) ==
    Flatten([i \in 1..Len(x) |->
        LET others == RemoveAt(x, i)
        IN  [k \in 1..Len(others) |-> <<x[i], others[k]>>]])

\* Configurations::get_permutations
get_permutations(data) ==
    Flatten([i \in 1..Len(data) |-> unique(permutations(data[i]))])

\* The orders in which the HashSet union of the labels can be collected.
LabelOrders(set) ==
    {order \in [1..Cardinality(set) -> set] : SeqToSet(order) = set}

\* SatEncoder::new, the labels collected in the given order.
SatEncoder_new(lcl_problem, g, labels) ==
    [graph |-> g,
     active_permutations |-> get_permutations(lcl_problem.active),
     passive_permutations |-> get_permutations(lcl_problem.passive),
     labels |-> labels]

\* find_position of the node in a partition (from 0).
find_position(partition, node_index) ==
    (CHOOSE k \in 1..Len(partition) : partition[k] = node_index) - 1

var_permutation(enc, active, node_index, permutation_index) ==
    LET active_permutations_size == Len(enc.active_permutations)
        passive_permutations_size == Len(enc.passive_permutations)
        active_nodes_size == Len(enc.graph.partition_a)
    IN  IF active
        THEN find_position(enc.graph.partition_a, node_index) * active_permutations_size
                + permutation_index + 1
        ELSE active_nodes_size * active_permutations_size
                + find_position(enc.graph.partition_b, node_index) * passive_permutations_size
                + permutation_index + 1

\* The label's position among the labels taken for its value.
var_label_by_position(enc, node_order, edge_index, label) ==
    LET base == Len(enc.graph.partition_a) * Len(enc.active_permutations)
                + Len(enc.graph.partition_b) * Len(enc.passive_permutations) + 1
        labels_count == Len(enc.labels)
        position == Cardinality({l \in SeqToSet(enc.labels) : l < label})
        v == edge_index * labels_count + position
    IN  IF node_order = "ActivePassive" THEN base + v
        ELSE base + Len(enc.graph.edges) * labels_count + v

var_label(enc, node_order, edge_index, label) ==
    LET active_permutations_size == Len(enc.active_permutations)
        passive_permutations_size == Len(enc.passive_permutations)
        active_nodes_size == Len(enc.graph.partition_a)
        passive_nodes_size == Len(enc.graph.partition_b)
        base == active_nodes_size * active_permutations_size
                + passive_nodes_size * passive_permutations_size + 1
        labels_count == Len(enc.labels)
        v == edge_index * labels_count + label
        active_passive_label_variables_size == Len(enc.graph.edges) * labels_count
    IN  IF node_order = "ActivePassive" THEN base + v
        ELSE base + active_passive_label_variables_size + v

at_least_one(variables) == << variables >>

at_most_one(variables) ==
    combinations([k \in 1..Len(variables) |-> -variables[k]], 2)

only_one(variables) == at_least_one(variables) \o at_most_one(variables)

implies(variable_0, variable_1) == << <<-variable_0, variable_1>> >>

\* 1. Adjacent nodes agree on the label of their edge.
agreement_clauses(enc) ==
    LET g == enc.graph IN
    Flatten([i \in 1..Len(g.partition_a) |->
        LET incident == edges(g, g.partition_a[i])
            all_label_pairs == permutations_2(enc.labels)
        IN  Flatten([j \in 1..Len(incident) |->
                Flatten([k \in 1..Len(all_label_pairs) |->
                    at_most_one(<<var_label(enc, "ActivePassive", incident[j],
                                            all_label_pairs[k][1]),
                                  var_label(enc, "PassiveActive", incident[j],
                                            all_label_pairs[k][2])>>)])])])

\* 2.1 and 2.2: each node of the partition has only one permutation.
only_one_permutation_clauses(enc, active) ==
    LET partition == IF active THEN enc.graph.partition_a ELSE enc.graph.partition_b
        len == IF active THEN Len(enc.active_permutations)
               ELSE Len(enc.passive_permutations)
    IN  Flatten([i \in 1..Len(partition) |->
            only_one([permutation_index \in 1..len |->
                var_permutation(enc, active, partition[i], permutation_index - 1)])])

\* 2.3.1 and 2.3.2: the permutation of a node implies the labels of its edges.
labeling_clauses(enc, active) ==
    LET g == enc.graph
        partition == IF active THEN g.partition_a ELSE g.partition_b
        perms == IF active THEN enc.active_permutations ELSE enc.passive_permutations
        node_order == IF active THEN "ActivePassive" ELSE "PassiveActive"
    IN  Flatten([i \in 1..Len(partition) |->
            LET incident == edges(g, partition[i]) IN
            Flatten([permutation_index \in 1..Len(perms) |->
                Flatten([incident_edge_index \in 1..Len(incident) |->
                    implies(var_permutation(enc, active, partition[i],
                                            permutation_index - 1),
                            var_label(enc, node_order, incident[incident_edge_index],
                                      perms[permutation_index][incident_edge_index]))])])])

\* SatEncoder::encode
encode(enc) ==
    agreement_clauses(enc)
    \o only_one_permutation_clauses(enc, TRUE)
    \o only_one_permutation_clauses(enc, FALSE)
    \o labeling_clauses(enc, TRUE)
    \o labeling_clauses(enc, FALSE)

\* The clauses as a set of sets of literals.
ClauseSet(cs) == {SeqToSet(cs[k]) : k \in 1..Len(cs)}

\* The clauses left when the literal is made true.
Assign(cs, literal) == {c \ {-literal} : c \in {d \in cs : literal \notin d}}

\* Satisfiability of a set of clauses: branch on a literal of a shortest clause.
RECURSIVE Satisfiable(_)
Satisfiable(cs) ==
    IF cs = {} THEN TRUE
    ELSE IF {} \in cs THEN FALSE
    ELSE LET c == CHOOSE c \in cs : \A d \in cs : Cardinality(c) <= Cardinality(d)
             literal == CHOOSE l \in c : TRUE
         IN  Satisfiable(Assign(cs, literal)) \/ Satisfiable(Assign(cs, -literal))

\* The decisions kissat_rs::Solver::decide_formula can return for the clauses.
decide_formula(cs) ==
    {IF Satisfiable(ClauseSet(cs)) THEN "Ok(true)" ELSE "Ok(false)", "Err"}

InitEncode ==
    /\ task = "encode"
    /\ problem \in EncodeProblems
    /\ ops = <<"none", "new">>
    /\ prev = NoProblem
    /\ twin = NoProblem
    /\ twinOps = <<>>
    /\ twinPrev = NoProblem
    /\ generated = [class |-> NoClass, problems |-> <<>>]
    /\ FindIdle
    /\ graph \in {g \in EncodeGraphs : degrees_match(problem, g)}
    /\ encoder = NoEncoder
    /\ clauses = <<>>
    /\ satResult = "none"
    /\ dimacs = <<>>
    /\ GenerateIdle
    /\ ParseIdle
    /\ CacheIdle
    /\ SharedIdle
    /\ CandidateIdle
    /\ RunsIdle

\* SatEncoder::new(problem, graph)
New ==
    /\ task = "encode"
    /\ encoder = NoEncoder
    /\ \E labels \in LabelOrders(get_labels_set(problem.active)
                                 \cup get_labels_set(problem.passive)) :
          encoder' = SatEncoder_new(problem, graph, labels)
    /\ UNCHANGED <<problemVars, findVars, graph, clauses, satResult, dimacs>>
    /\ UNCHANGED generateVars
    /\ UNCHANGED parseVars
    /\ UNCHANGED cacheVars
    /\ UNCHANGED sharedVars
    /\ UNCHANGED candidateVars
    /\ UNCHANGED runVars

\* encoder.encode()
Encode ==
    /\ task = "encode"
    /\ encoder # NoEncoder
    /\ clauses = <<>>
    /\ clauses' = encode(encoder)
    /\ UNCHANGED <<problemVars, findVars, graph, encoder, satResult, dimacs>>
    /\ UNCHANGED generateVars
    /\ UNCHANGED parseVars
    /\ UNCHANGED cacheVars
    /\ UNCHANGED sharedVars
    /\ UNCHANGED candidateVars
    /\ UNCHANGED runVars

\* SatSolver::solve(clauses)
Solve ==
    /\ task = "encode"
    /\ clauses # <<>>
    /\ satResult = "none"
    /\ \E decision \in decide_formula(clauses) : satResult' = solve(decision)
    /\ UNCHANGED <<problemVars, findVars, graph, encoder, clauses, dimacs>>
    /\ UNCHANGED generateVars
    /\ UNCHANGED parseVars
    /\ UNCHANGED cacheVars
    /\ UNCHANGED sharedVars
    /\ UNCHANGED candidateVars
    /\ UNCHANGED runVars

\* The decimal digits of a number, as format! writes it.
RECURSIVE to_decimal(_)
to_decimal(n) ==
    LET digits == <<"0", "1", "2", "3", "4", "5", "6", "7", "8", "9">>
    IN  IF n < 10 THEN <<digits[n + 1]>>
        ELSE to_decimal(n \div 10) \o <<digits[(n % 10) + 1]>>

\* Display of an i32 or a usize
format_integer(x) == IF x < 0 THEN <<"-">> \o to_decimal(-x) ELSE to_decimal(x)

\* The head of the text with a space after "cnf".
dimacs_problem_line_spaced(variable_count, clause_count) ==
    <<"p", " ", "c", "n", "f", " ">> \o format_integer(variable_count) \o <<" ">>
        \o format_integer(clause_count) \o <<"\n">>

\* format!("p cnf{} {}\n", variable_count, clauses.len())
dimacs_problem_line(variable_count, clause_count) ==
    <<"p", " ", "c", "n", "f">> \o format_integer(variable_count) \o <<" ">>
        \o format_integer(clause_count) \o <<"\n">>

\* format!("{} 0\n", x.iter().join(" "))
dimacs_clause_line(x) ==
    join([k \in 1..Len(x) |-> format_integer(x[k])], <<" ">>) \o <<" ", "0", "\n">>

\* SatEncoder::clauses_into_cnf_dimacs(clauses, variable_count)
clauses_into_cnf_dimacs(cs, variable_count) ==
    dimacs_problem_line(variable_count, Len(cs))
        \o Flatten([k \in 1..Len(cs) |-> dimacs_clause_line(cs[k])])

\* The largest variable of the clauses.
variable_count_of(cs) ==
    LET variables == UNION {{IF l < 0 THEN -l ELSE l : l \in SeqToSet(cs[k])} : k \in 1..Len(cs)}
    IN  CHOOSE v \in variables : \A w \in variables : w <= v

\* encoder.clauses_into_cnf_dimacs(&clauses, variable_count)
IntoCnfDimacs ==
    /\ task = "encode"
    /\ clauses # <<>>
    /\ dimacs = <<>>
    /\ dimacs' = clauses_into_cnf_dimacs(clauses, variable_count_of(clauses))
    /\ UNCHANGED <<problemVars, findVars, graph, encoder, clauses, satResult>>
    /\ UNCHANGED generateVars
    /\ UNCHANGED parseVars
    /\ UNCHANGED cacheVars
    /\ UNCHANGED sharedVars
    /\ UNCHANGED candidateVars
    /\ UNCHANGED runVars

NextEncode == New \/ Encode \/ Solve \/ IntoCnfDimacs

SpecEncode == InitEncode /\ [][NextEncode]_vars

\* The labels on the edges of a node, in the order of graph.edges(node).
labels_at(g, labeling, node) ==
    LET incident == edges(g, node)
    IN  [k \in 1..Len(incident) |-> labeling[incident[k]]]

is_permutation_of(s, configuration) ==
    /\ Len(s) = Len(configuration)
    /\ \A x \in SeqToSet(s) \cup SeqToSet(configuration) :
          Count(s, x) = Count(configuration, x)

\* A label on every edge so that every active node reads a permutation of an
\* active configuration and every passive node one of a passive configuration.
is_valid_labeling(lcl_problem, g, labeling) ==
    /\ \A i \in 1..Len(g.partition_a) :
          \E c \in 1..Len(lcl_problem.active) :
             is_permutation_of(labels_at(g, labeling, g.partition_a[i]),
                               lcl_problem.active[c])
    /\ \A i \in 1..Len(g.partition_b) :
          \E c \in 1..Len(lcl_problem.passive) :
             is_permutation_of(labels_at(g, labeling, g.partition_b[i]),
                               lcl_problem.passive[c])

has_valid_labeling(lcl_problem, g) ==
    \E labeling \in [0..(Len(g.edges) - 1) -> 0..(NumLabels - 1)] :
        is_valid_labeling(lcl_problem, g, labeling)

\* The labels of the problem are 0 .. k-1 for some k.
contiguous_labels(lcl_problem) ==
    LET labels == get_labels_set(lcl_problem.active)
                  \cup get_labels_set(lcl_problem.passive)
    IN  labels = 0..(Cardinality(labels) - 1)

\* C1: the clauses returned by encode are satisfiable if and only if the
\* graph has a labeling of its edges in which every active node reads a
\* permutation of an active configuration and every passive node a
\* permutation of a passive configuration.
C1_EncodeSatisfiableIffLabeling ==
    (task = "encode" /\ clauses # <<>>) =>
        (Satisfiable(ClauseSet(clauses)) <=> has_valid_labeling(problem, graph))

\* The equivalence for the problems whose labels are 0 .. k-1.
EncodeSatisfiableIffLabelingOnContiguousLabels ==
    (task = "encode" /\ clauses # <<>> /\ contiguous_labels(problem)) =>
        (Satisfiable(ClauseSet(clauses)) <=> has_valid_labeling(problem, graph))

\* The single edge with the problem active {[0], [2]}, passive {[0], [2]}:
\* label 0 on the edge is a valid labeling and the solver answers
\* Unsatisfiable.
C1_Witness ==
    /\ task = "encode"
    /\ problem = from_configurations(<< <<0>>, <<2>> >>, << <<0>>, <<2>> >>)
    /\ Len(graph.edges) = 1
    /\ has_valid_labeling(problem, graph)
    /\ satResult = "Unsatisfiable"

------------------------------------------------------------------------------
(* The solver's error in the search driver.                                 *)

\* The SAT calls of a closure whose decision was neither true nor false.
UnknownCalls(t) == {k \in 1..Len(t.solved) : t.solved[k][3] = "panic"}

\* C11: a SAT call that is neither SAT nor UNSAT gives no witness, is not
\* counted as UNSAT, and neither ends the closure that made it nor the run:
\* the closure is not left panicked and find does not abort.
C11_UnknownDoesNotTerminate ==
    task = "find" =>
        \A p \in FindProblems :
            LET t == tasks[p] IN
            UnknownCalls(t) # {} =>
                /\ Len(WitnessesOf(t)) =
                      Cardinality({k \in 1..Len(t.solved) :
                                      t.solved[k][3] = "Unsatisfiable"})
                /\ t.pc # "panicked"
                /\ phase # "aborted"

\* The solver fails on the first graph of a problem while graphs and another
\* problem's closure remain: the run is aborted with nothing collected.
C11_Witness ==
    /\ task = "find"
    /\ phase = "aborted"
    /\ results = <<>>
    /\ \E p, q \in FindProblems :
          /\ tasks[p].solved = <<<<nLower, 1, "panic">>>>
          /\ tasks[p].pc = "panicked"
          /\ SumSeq(graphs) > 1
          /\ tasks[q].pc = "graph_size_loop" /\ tasks[q].solved = <<>>

------------------------------------------------------------------------------
(* The numbering of the variables.                                          *)

Abs(x) == IF x < 0 THEN -x ELSE x

\* The entries of the layered schema of an encoder: the block, the index of
\* the node (in its partition) or of the edge, and the permutation index or
\* the label.
SchemaEntries(enc) ==
    LET nA == Len(enc.graph.partition_a)
        nP == Len(enc.graph.partition_b)
        m == Len(enc.graph.edges)
    IN  ({"perm_A"} \X (0..(nA - 1)) \X (0..(Len(enc.active_permutations) - 1)))
        \cup ({"perm_P"} \X (0..(nP - 1)) \X (0..(Len(enc.passive_permutations) - 1)))
        \cup ({"lab_AP", "lab_PA"} \X (0..(m - 1)) \X SeqToSet(enc.labels))

\* The number the encoder gives to an entry of the schema.
VariableOf(enc, entry) ==
    CASE entry[1] = "perm_A" ->
            var_permutation(enc, TRUE, enc.graph.partition_a[entry[2] + 1], entry[3])
      [] entry[1] = "perm_P" ->
            var_permutation(enc, FALSE, enc.graph.partition_b[entry[2] + 1], entry[3])
      [] entry[1] = "lab_AP" -> var_label(enc, "ActivePassive", entry[2], entry[3])
      [] entry[1] = "lab_PA" -> var_label(enc, "PassiveActive", entry[2], entry[3])

\* The numbers the schema reserves for a block.
BlockRange(enc, block) ==
    LET perm_A == Len(enc.graph.partition_a) * Len(enc.active_permutations)
        perm_P == Len(enc.graph.partition_b) * Len(enc.passive_permutations)
        lab == Len(enc.graph.edges) * Len(enc.labels)
    IN  CASE block = "perm_A" -> 1..perm_A
          [] block = "perm_P" -> (perm_A + 1)..(perm_A + perm_P)
          [] block = "lab_AP" -> (perm_A + perm_P + 1)..(perm_A + perm_P + lab)
          [] block = "lab_PA" -> (perm_A + perm_P + lab + 1)..(perm_A + perm_P + 2 * lab)
          [] block = "all" -> 1..(perm_A + perm_P + 2 * lab)

\* C12: every entry of the schema has its number in the range of its block,
\* two different entries never have the same number, and every literal of
\* the clauses of encode has its absolute value in 1..nA*pA + nP*pP + 2*m*l.
C12_LayeredVariableNumbering ==
    (task = "encode" /\ clauses # <<>>) =>
        /\ \A entry \in SchemaEntries(encoder) :
              VariableOf(encoder, entry) \in BlockRange(encoder, entry[1])
        /\ \A x, y \in SchemaEntries(encoder) :
              x # y => VariableOf(encoder, x) # VariableOf(encoder, y)
        /\ \A k \in 1..Len(clauses) : \A i \in 1..Len(clauses[k]) :
              Abs(clauses[k][i]) \in BlockRange(encoder, "all")

\* The single edge with labels 0 and 2: lab_AP[e0, 2] and lab_PA[e0, 0] are
\* one number, and lab_PA[e0, 2] lies beyond the last reserved number.
C12_Witness ==
    /\ task = "encode" /\ clauses # <<>>
    /\ problem = from_configurations(<< <<0>>, <<2>> >>, << <<0>>, <<2>> >>)
    /\ Len(graph.edges) = 1
    /\ VariableOf(encoder, <<"lab_AP", 0, 2>>) = VariableOf(encoder, <<"lab_PA", 0, 0>>)
    /\ VariableOf(encoder, <<"lab_PA", 0, 2>>) \notin BlockRange(encoder, "all")

\* The numbering for the problems whose labels are 0 .. k-1.
LayeredVariableNumberingOnContiguousLabels ==
    contiguous_labels(problem) => C12_LayeredVariableNumbering

------------------------------------------------------------------------------
(* The families of clauses.                                                 *)

\* The number of an entry in the layered schema: the blocks in their order,
\* inside a block the node or edge first, a label by its position among the
\* labels of the problem.
SchemaNumber(enc, entry) ==
    LET perm_A == Len(enc.graph.partition_a) * Len(enc.active_permutations)
        perm_P == Len(enc.graph.partition_b) * Len(enc.passive_permutations)
        l == Len(enc.labels)
        position == Cardinality({x \in SeqToSet(enc.labels) : x < entry[3]})
    IN  CASE entry[1] = "perm_A" ->
                entry[2] * Len(enc.active_permutations) + entry[3] + 1
          [] entry[1] = "perm_P" ->
                perm_A + entry[2] * Len(enc.passive_permutations) + entry[3] + 1
          [] entry[1] = "lab_AP" -> perm_A + perm_P + 1 + entry[2] * l + position
          [] entry[1] = "lab_PA" ->
                perm_A + perm_P + 1 + Len(enc.graph.edges) * l + entry[2] * l + position

\* A side of the graph: its partition, its permutations, its two blocks.
Side(enc, active) ==
    IF active
    THEN [partition |-> enc.graph.partition_a, perms |-> enc.active_permutations,
          perm |-> "perm_A", lab |-> "lab_AP"]
    ELSE [partition |-> enc.graph.partition_b, perms |-> enc.passive_permutations,
          perm |-> "perm_P", lab |-> "lab_PA"]

\* The members of the three families: an agreement clause for an edge and an
\* ordered pair of distinct labels; for a node the at-least-one clause and an
\* at-most-one clause for two of its permutations; an implication for a
\* node, a permutation and a position among the node's edges.
FamilyMembers(enc) ==
    LET labels == SeqToSet(enc.labels)
        nodes(active) == 1..Len(Side(enc, active).partition)
        perms(active) == 1..Len(Side(enc, active).perms)
    IN  {<<"agreement", e, l1, l2>> :
            e \in 0..(Len(enc.graph.edges) - 1), l1 \in labels, l2 \in labels}
        \cup UNION {
            {<<"at_least_one", active, a>> : a \in nodes(active)}
            \cup {<<"at_most_one", active, a, i, j>> :
                    a \in nodes(active), i \in perms(active), j \in perms(active)}
            \cup UNION {{<<"implication", active, a, i, k>> :
                            i \in perms(active),
                            k \in 1..degree(enc.graph, Side(enc, active).partition[a])} :
                        a \in nodes(active)} :
            active \in BOOLEAN}

IsFamilyMember(member) ==
    CASE member[1] = "agreement" -> member[3] # member[4]
      [] member[1] = "at_most_one" -> member[4] < member[5]
      [] OTHER -> TRUE

\* The clause of a member of a family, its variables numbered by Number.
ClauseOf(enc, member, Number(_, _)) ==
    LET side == Side(enc, member[2])
        var_perm(a, i) == Number(enc, <<side.perm, a - 1, i - 1>>)
    IN  CASE member[1] = "agreement" ->
                <<-Number(enc, <<"lab_AP", member[2], member[3]>>),
                  -Number(enc, <<"lab_PA", member[2], member[4]>>)>>
          [] member[1] = "at_least_one" ->
                [i \in 1..Len(side.perms) |-> var_perm(member[3], i)]
          [] member[1] = "at_most_one" ->
                <<-var_perm(member[3], member[4]), -var_perm(member[3], member[5])>>
          [] member[1] = "implication" ->
                <<-var_perm(member[3], member[4]),
                  Number(enc, <<side.lab,
                                edges(enc.graph, side.partition[member[3]])[member[5]],
                                side.perms[member[4]][member[5]]>>)>>

\* The clause list holds the clause of every member of the families, each as
\* often as members have it, and nothing else.
IsExactlyTheFamilies(enc, cs, Number(_, _)) ==
    LET members == {member \in FamilyMembers(enc) : IsFamilyMember(member)}
        expected == {ClauseOf(enc, member, Number) : member \in members}
    IN  /\ Len(cs) = Cardinality(members)
        /\ SeqToSet(cs) = expected
        /\ \A c \in expected :
              Count(cs, c) = Cardinality({member \in members :
                                            ClauseOf(enc, member, Number) = c})

\* C13: the clauses of encode are exactly the agreement clauses, the
\* only-one-permutation clauses and the implication clauses over the
\* variables of the schema, one clause for every member of a family, every
\* edge (parallel edges too) with its own agreement clauses.
C13_ExactlyThreeFamilies ==
    (task = "encode" /\ clauses # <<>>) =>
        IsExactlyTheFamilies(encoder, clauses, SchemaNumber)

\* The same with the numbers the encoder itself gives to the variables.
ExactlyThreeFamiliesOverEncoderNumbers ==
    (task = "encode" /\ clauses # <<>>) =>
        IsExactlyTheFamilies(encoder, clauses, VariableOf)

\* The double edge with labels 0 and 2: the agreement clause of the pair
\* (2, 0) on the first edge is emitted over the variable of lab_AP[e1, 0]
\* and lab_PA[e0, 0] is not in it.
C13_Witness ==
    /\ task = "encode" /\ clauses # <<>>
    /\ Len(graph.edges) = 2 /\ Len(graph.partition_a) = 1 /\ Len(graph.partition_b) = 1
    /\ SeqToSet(encoder.labels) = {0, 2}
    /\ <<-SchemaNumber(encoder, <<"lab_AP", 1, 0>>),
         -VariableOf(encoder, <<"lab_PA", 0, 0>>)>> \in SeqToSet(clauses)
    /\ ClauseOf(encoder, <<"agreement", 0, 2, 0>>, SchemaNumber) \notin SeqToSet(clauses)

------------------------------------------------------------------------------
(* The generators of biregular multigraphs.                                 *)

\* num_cpus::get() is in 1..MaxThreads.
MaxThreads == 3

\* The classes (graph_size, degree_a, degree_b) generated: those of the
\* tests that are small, classes in which the filter meets multigraphs that
\* are not regular, and a class without graphs.
Classes == {<<2, 2, 2>>, <<3, 4, 2>>, <<3, 1, 2>>, <<4, 2, 2>>, <<4, 3, 3>>,
            <<4, 1, 2>>, <<5, 2, 3>>, <<5, 3, 2>>}

Max(a, b) == IF a > b THEN a ELSE b

RECURSIVE SetToSeq(_)
SetToSeq(S) ==
    IF S = {} THEN <<>>
    ELSE LET x == CHOOSE y \in S : TRUE IN <<x>> \o SetToSeq(S \ {x})

RECURSIVE SumOver(_, _)
SumOver(f, S) ==
    IF S = {} THEN 0
    ELSE LET x == CHOOSE y \in S : TRUE IN f[x] + SumOver(f, S \ {x})

\* The sizes (n1, n2) of the two partitions: n1 + n2 = graph_size and
\* n1 * degree_a = n2 * degree_b.
biregular_partition_sizes(graph_size, degree_a, degree_b) ==
    SetToSeq({s \in (1..graph_size) \X (1..graph_size) :
                /\ s[1] + s[2] = graph_size
                /\ s[1] * degree_a = s[2] * degree_b})

\* A bipartite (multi)graph on n1 + n2 nodes as the multiplicity of every
\* pair (i, j) of a node of the first and a node of the second side.
row_degree(m, n2, i) == SumOver([j \in 1..n2 |-> m[<<i, j>>]], 1..n2)
col_degree(m, n1, j) == SumOver([i \in 1..n1 |-> m[<<i, j>>]], 1..n1)

\* The nodes reached from the nodes in S: first side 1..n1, second side
\* n1+1 .. n1+n2.
RECURSIVE Reach(_, _, _, _)
Reach(m, n1, n2, S) ==
    LET T == S \cup {n1 + j : j \in {j \in 1..n2 : \E i \in S \cap (1..n1) : m[<<i, j>>] > 0}}
                \cup {i \in 1..n1 : \E j \in 1..n2 : (n1 + j) \in S /\ m[<<i, j>>] > 0}
    IN  IF T = S THEN S ELSE Reach(m, n1, n2, T)

is_connected(m, n1, n2) == Reach(m, n1, n2, {1}) = 1..(n1 + n2)

\* The simple connected bipartite graphs on (n1, n2) nodes with the degrees
\* of the first side in d1_low..d1_high and of the second in
\* d2_low..d2_high; with modulo > 0 only the slice `result` of `modulo`.
generate_bipartite_graphs(n1, n2, d1_low, d2_low, d1_high, d2_high, result, modulo) ==
    LET all == SetToSeq({m \in [(1..n1) \X (1..n2) -> 0..1] :
                    /\ \A i \in 1..n1 : row_degree(m, n2, i) \in d1_low..d1_high
                    /\ \A j \in 1..n2 : col_degree(m, n1, j) \in d2_low..d2_high
                    /\ is_connected(m, n1, n2)})
        slice == SelectSeq([k \in 1..Len(all) |-> <<k, all[k]>>],
                           LAMBDA e : (e[1] - 1) % modulo = result)
    IN  IF modulo = 0 THEN all ELSE [k \in 1..Len(slice) |-> slice[k][2]]

\* The multigraphs over a simple graph: every edge with a multiplicity of at
\* most max_edge_multiplicity, `edges` edges in all, no degree above
\* max_degree.
extend_to_multigraphs(simple, n1, n2, max_edge_multiplicity, edge_count, max_degree) ==
    SetToSeq({m \in [(1..n1) \X (1..n2) -> 0..max_edge_multiplicity] :
        /\ \A e \in (1..n1) \X (1..n2) : (m[e] > 0) = (simple[e] > 0)
        /\ SumOver(m, (1..n1) \X (1..n2)) = edge_count
        /\ \A i \in 1..n1 : row_degree(m, n2, i) <= max_degree
        /\ \A j \in 1..n2 : col_degree(m, n1, j) <= max_degree})


\* generate_bipartite_multigraphs: the multigraphs over the simple graphs of
\* the slice.
generate_bipartite_multigraphs(n1, n2, d1_low, d2_low, d1_high, d2_high, result, modulo, max_edge_multiplicity, edge_count, max_degree) ==
    LET simple == generate_bipartite_graphs(n1, n2, d1_low, d2_low, d1_high, d2_high,
                                            result, modulo)
    IN  Flatten([k \in 1..Len(simple) |->
            extend_to_multigraphs(simple[k], n1, n2, max_edge_multiplicity,
                                  edge_count, max_degree)])

\* multigraph_string_to_petgraph: nodes 0 .. n1+n2-1, one edge for every unit
\* of multiplicity.
multigraph_to_edges(m, n1, n2) ==
    LET pairs == SetToSeq((1..n1) \X (1..n2))
    IN  Flatten([k \in 1..Len(pairs) |->
            [c \in 1..m[pairs[k]] |-> <<pairs[k][1] - 1, n1 + pairs[k][2] - 1>>]])

\* get_partitions: the first n1 nodes and the n2 nodes after them.
get_partitions(n1, n2) ==
    <<[i \in 1..n1 |-> i - 1], [j \in 1..n2 |-> n1 + j - 1]>>

\* partition_is_regular: the nodes of the partition have one degree.
partition_is_regular(g, partition) ==
    \A i, j \in 1..Len(partition) : degree(g, partition[i]) = degree(g, partition[j])

\* The filter that looks at the first partition only.
is_kept_if_first_regular(g) == partition_is_regular(g, g.partition_a)

\* `.filter(|(g, (p1, p2))| partition_is_regular(&g, &p1) && partition_is_regular(&g, &p2))`
is_kept(g) ==
    partition_is_regular(g, g.partition_a) /\ partition_is_regular(g, g.partition_b)

\* The multigraphs of one pair of sizes as BiregularGraphs: converted,
\* partitioned, filtered.
to_biregular_graphs(ms, n1, n2, degree_a, degree_b) ==
    LET converted == [k \in 1..Len(ms) |->
            [graph |-> Graph(get_partitions(n1, n2)[1], get_partitions(n1, n2)[2],
                             multigraph_to_edges(ms[k], n1, n2), FALSE),
             degree_a |-> degree_a, degree_b |-> degree_b]]
    IN  SelectSeq(converted, LAMBDA b : is_kept(b.graph))

\* `let edges = n1 * degree_b;`
edges_of_sizes_by_degree_b(n1, degree_a, degree_b) == n1 * degree_b

\* `let edges = n1 * degree_a;`
edges_of_sizes(n1, degree_a, degree_b) == n1 * degree_a

\* The body shared by generate_multigraphs (result = 0, modulo = 0) and by a
\* thread of generate_multigraphs_parallel (result = i, modulo = threads).
generate_slice(graph_size, degree_a, degree_b, result, modulo) ==
    LET max_degree == Max(degree_a, degree_b)
        max_edge_multiplicity == max_degree
        sizes == biregular_partition_sizes(graph_size, degree_a, degree_b)
    IN  Flatten([k \in 1..Len(sizes) |->
            LET n1 == sizes[k][1]
                n2 == sizes[k][2]
                mg == generate_bipartite_multigraphs(n1, n2, 1, 1, degree_a, degree_b,
                            result, modulo, max_edge_multiplicity,
                            edges_of_sizes(n1, degree_a, degree_b), max_degree)
            IN  to_biregular_graphs(mg, n1, n2, degree_a, degree_b)])

\* BiregularGraph::generate_multigraphs
generate_multigraphs(graph_size, degree_a, degree_b) ==
    generate_slice(graph_size, degree_a, degree_b, 0, 0)

\* The classes and their graphs, and the batch of every thread.
MultigraphTable == [c \in Classes |-> generate_multigraphs(c[1], c[2], c[3])]

BatchTable ==
    [c \in Classes |-> [w \in 1..MaxThreads |-> [i \in 0..(w - 1) |->
        generate_slice(c[1], c[2], c[3], i, w)]]]


\* The receiver's iterator ends as soon as no batch waits.
receiver_ended_when_empty(waiting, senders) == waiting = <<>>

\* `receiver.into_iter()` ends when no batch waits and every Sender is dropped.
receiver_ended(waiting, senders) == waiting = <<>> /\ senders = 0

\* The Senders alive once generate_multigraphs_parallel dropped its own: one
\* in every thread that has not ended.
live_senders == Cardinality({i \in DOMAIN worker : worker[i] # "exited"})

InitGenerate ==
    /\ task = "generate"
    /\ ProblemIdle
    /\ FindIdle
    /\ EncodeIdle
    /\ ParseIdle
    /\ CacheIdle
    /\ SharedIdle
    /\ CandidateIdle
    /\ RunsIdle
    /\ genClass \in Classes
    /\ threads \in 1..MaxThreads
    /\ mainPc = "spawn"
    /\ worker = [i \in 0..(threads - 1) |-> "unspawned"]
    /\ receiver = <<>>
    /\ collected = <<>>
    /\ multigraphs = [called |-> FALSE, graphs |-> <<>>]

\* BiregularGraph::generate_multigraphs(graph_size, degree_a, degree_b)
GenerateMultigraphs ==
    /\ task = "generate"
    /\ ~multigraphs.called
    /\ multigraphs' = [called |-> TRUE, graphs |-> MultigraphTable[genClass]]
    /\ UNCHANGED <<genClass, threads, mainPc, worker, receiver, collected>>
    /\ UNCHANGED <<problemVars, findVars, encodeVars>>
    /\ UNCHANGED parseVars
    /\ UNCHANGED cacheVars
    /\ UNCHANGED sharedVars
    /\ UNCHANGED candidateVars
    /\ UNCHANGED runVars

\* `for i in 0..threads { ... thread::spawn(...) }`: the next thread, and
\* after the last one the loop is left.
Spawn ==
    /\ mainPc = "spawn"
    /\ LET i == Cardinality({j \in DOMAIN worker : worker[j] # "unspawned"})
       IN  /\ worker' = [worker EXCEPT ![i] = "running"]
           /\ mainPc' = IF i + 1 = threads THEN "drop" ELSE "spawn"
    /\ UNCHANGED <<genClass, threads, receiver, collected, multigraphs>>
    /\ UNCHANGED <<problemVars, findVars, encodeVars>>
    /\ UNCHANGED parseVars
    /\ UNCHANGED cacheVars
    /\ UNCHANGED sharedVars
    /\ UNCHANGED candidateVars
    /\ UNCHANGED runVars

\* `mem::drop(sender);`
DropSender ==
    /\ mainPc = "drop"
    /\ mainPc' = "receive"
    /\ UNCHANGED <<genClass, threads, worker, receiver, collected, multigraphs>>
    /\ UNCHANGED <<problemVars, findVars, encodeVars>>
    /\ UNCHANGED parseVars
    /\ UNCHANGED cacheVars
    /\ UNCHANGED sharedVars
    /\ UNCHANGED candidateVars
    /\ UNCHANGED runVars

\* Thread i: its slice (i, threads) generated, filtered and sent.
Send(i) ==
    /\ worker[i] = "running"
    /\ receiver' = Append(receiver, BatchTable[genClass][threads][i])
    /\ worker' = [worker EXCEPT ![i] = "sent"]
    /\ UNCHANGED <<genClass, threads, mainPc, collected, multigraphs>>
    /\ UNCHANGED <<problemVars, findVars, encodeVars>>
    /\ UNCHANGED parseVars
    /\ UNCHANGED cacheVars
    /\ UNCHANGED sharedVars
    /\ UNCHANGED candidateVars
    /\ UNCHANGED runVars

\* Thread i ends: its Sender is dropped.
Exit(i) ==
    /\ worker[i] = "sent"
    /\ worker' = [worker EXCEPT ![i] = "exited"]
    /\ UNCHANGED <<genClass, threads, mainPc, receiver, collected, multigraphs>>
    /\ UNCHANGED <<problemVars, findVars, encodeVars>>
    /\ UNCHANGED parseVars
    /\ UNCHANGED cacheVars
    /\ UNCHANGED sharedVars
    /\ UNCHANGED candidateVars
    /\ UNCHANGED runVars

\* `receiver.into_iter().flatten()`: the next batch.
Receive ==
    /\ mainPc = "receive"
    /\ receiver # <<>>
    /\ collected' = collected \o Head(receiver)
    /\ receiver' = Tail(receiver)
    /\ UNCHANGED <<genClass, threads, mainPc, worker, multigraphs>>
    /\ UNCHANGED <<problemVars, findVars, encodeVars>>
    /\ UNCHANGED parseVars
    /\ UNCHANGED cacheVars
    /\ UNCHANGED sharedVars
    /\ UNCHANGED candidateVars
    /\ UNCHANGED runVars

\* The iterator ends: `.collect_vec()` is returned.
Return ==
    /\ mainPc = "receive"
    /\ receiver_ended(receiver, live_senders)
    /\ mainPc' = "returned"
    /\ UNCHANGED <<genClass, threads, worker, receiver, collected, multigraphs>>
    /\ UNCHANGED <<problemVars, findVars, encodeVars>>
    /\ UNCHANGED parseVars
    /\ UNCHANGED cacheVars
    /\ UNCHANGED sharedVars
    /\ UNCHANGED candidateVars
    /\ UNCHANGED runVars

NextGenerate ==
    \/ GenerateMultigraphs
    \/ Spawn
    \/ DropSender
    \/ \E i \in DOMAIN worker : Send(i)
    \/ \E i \in DOMAIN worker : Exit(i)
    \/ Receive
    \/ Return

SpecGenerate == InitGenerate /\ [][NextGenerate]_vars


\* Every BiregularGraph a generator has returned, sent or collected.
GeneratedGraphs ==
    SeqToSet(multigraphs.graphs) \cup SeqToSet(collected)
    \cup UNION {SeqToSet(receiver[k]) : k \in 1..Len(receiver)}

IsInjective(seq) == \A i, j \in 1..Len(seq) : seq[i] = seq[j] => i = j

SameElements(a, b) ==
    \A x \in SeqToSet(a) \cup SeqToSet(b) : Count(a, x) = Count(b, x)

\* C15: the batches of two threads share no graph; once
\* generate_multigraphs_parallel has returned, every thread has sent its
\* batch and the collected graphs are those of the enumeration that is not
\* sliced, each once.
C15_ShardsCollectedExactlyOnce ==
    task = "generate" =>
        /\ \A i, j \in DOMAIN worker :
              i # j => SeqToSet(BatchTable[genClass][threads][i])
                       \cap SeqToSet(BatchTable[genClass][threads][j]) = {}
        /\ mainPc = "returned" =>
              /\ \A i \in DOMAIN worker : worker[i] \in {"sent", "exited"}
              /\ receiver = <<>>
              /\ SameElements(collected, generate_multigraphs(genClass[1], genClass[2],
                                                              genClass[3]))

\* Three threads with graphs in every batch, collected in another order than
\* that of the threads.
C15_Witness ==
    /\ task = "generate"
    /\ mainPc = "returned"
    /\ threads = 3
    /\ \A i \in DOMAIN worker : BatchTable[genClass][threads][i] # <<>>
    /\ collected # Flatten([k \in 1..threads |-> BatchTable[genClass][threads][k - 1]])
    /\ Len(collected) = 7

------------------------------------------------------------------------------
(* Text: Configurations::from_string, LclProblem::new, to_string and the     *)
(* line parsing of from_stdin. A text is a sequence of characters.           *)

\* The longest token of the texts parsed
MaxWidth == 2
\* The most tokens of one text
MaxTokens == 2

\* The characters of the texts parsed.
TextChars == {"A", "B"}

\* str::split(c): the pieces between the occurrences of c, empty ones kept.
RECURSIVE split(_, _)
split(s, c) ==
    IF \A i \in 1..Len(s) : s[i] # c
    THEN <<s>>
    ELSE LET i == CHOOSE k \in 1..Len(s) : s[k] = c /\ \A j \in 1..(k - 1) : s[j] # c
         IN  <<SubSeq(s, 1, i - 1)>> \o split(SubSeq(s, i + 1, Len(s)), c)

\* str::trim
RECURSIVE trim(_)
trim(s) ==
    IF s = <<>> THEN s
    ELSE IF Head(s) = " " THEN trim(Tail(s))
    ELSE IF s[Len(s)] = " " THEN trim(SubSeq(s, 1, Len(s) - 1))
    ELSE s

\* str::split_ascii_whitespace: the non-empty pieces between whitespace.
split_ascii_whitespace(s) == SelectSeq(split(s, " "), LAMBDA t : t # <<>>)

\* A value that is always 0 for a character not yet in the map.
new_value_zero(map) == 0

\* label_map.len() as u8
new_value(map) == Cardinality(DOMAIN map) % 256

\* The map after the characters of `chars` were looked up in order.
RECURSIVE insert_labels(_, _)
insert_labels(chars, map) ==
    IF chars = <<>> THEN map
    ELSE LET label == Head(chars)
             next == IF label \in DOMAIN map
                     THEN map
                     ELSE [c \in DOMAIN map \cup {label} |->
                              IF c \in DOMAIN map THEN map[c] ELSE new_value(map)]
         IN  insert_labels(Tail(chars), next)

\* Configurations::from_string(encoding, label_map): the outcome, the data and
\* the label_map afterwards. unwrap() of no first token and a failed assert!
\* panic.
from_string(text, map) ==
    LET configurations_vec_str == split_ascii_whitespace(text)
    IN  IF configurations_vec_str = <<>>
        THEN [outcome |-> "panicked", data |-> <<>>, label_map |-> map]
        ELSE LET width == Len(configurations_vec_str[1])
                 all_same_length ==
                     \A i \in 1..Len(configurations_vec_str) :
                         Len(configurations_vec_str[i]) = width
                 after == insert_labels(Flatten(configurations_vec_str), map)
             IN  IF ~all_same_length
                 THEN [outcome |-> "panicked", data |-> <<>>, label_map |-> map]
                 ELSE [outcome |-> "Ok",
                       data |-> [i \in 1..Len(configurations_vec_str) |->
                                    [j \in 1..width |-> after[configurations_vec_str[i][j]]]],
                       label_map |-> after]

\* LclProblem::new(a, p)
LclProblem_new(a, p) ==
    LET active == from_string(a, <<>>)
        passive == from_string(p, active.label_map)
    IN  IF active.outcome # "Ok"
        THEN [outcome |-> active.outcome, value |-> <<>>]
        ELSE IF passive.outcome # "Ok"
        THEN [outcome |-> passive.outcome, value |-> <<>>]
        ELSE [outcome |-> "Ok", value |-> from_configurations(active.data, passive.data)]

\* The letters of to_string.
to_string_labels ==
    <<"A", "B", "C", "D", "E", "F", "G", "H", "I", "J", "K", "L", "M",
      "N", "O", "P", "Q", "R", "S", "T", "U", "V", "W", "X", "Y", "Z">>

\* to_string of one side
configurations_string(data) ==
    join([i \in 1..Len(data) |->
             [j \in 1..Len(data[i]) |-> to_string_labels[data[i][j] + 1]]], <<" ">>)

\* impl ToString for LclProblem: nth(l).unwrap() panics for a label that has
\* no letter.
to_string(p) ==
    IF \E l \in get_labels_set(p.active) \cup get_labels_set(p.passive) :
           l >= Len(to_string_labels)
    THEN [outcome |-> "panicked", value |-> <<>>]
    ELSE [outcome |-> "Ok",
          value |-> join(<<configurations_string(p.active),
                           configurations_string(p.passive)>>, <<";", " ">>)]

\* from_stdin, the part of a line after the colon: collect_tuple() is None
\* unless there are two parts, and both expect()s panic.
parse_problem_str(problem_str) ==
    LET parts == split(problem_str, ";")
    IN  IF Len(parts) # 2
        THEN [outcome |-> "panicked", value |-> <<>>]
        ELSE LET problem_res == LclProblem_new(trim(parts[1]), trim(parts[2]))
             IN  IF problem_res.outcome # "Ok"
                 THEN [outcome |-> "panicked", value |-> <<>>]
                 ELSE problem_res

\* The tokens and the texts made of them.
RECURSIVE SeqsUpTo(_, _)
SeqsUpTo(S, n) ==
    IF n = 0 THEN {<<>>}
    ELSE LET shorter == SeqsUpTo(S, n - 1)
         IN  shorter \cup {Append(s, x) : s \in shorter, x \in S}

Tokens == SeqsUpTo(TextChars, MaxWidth) \ {<<>>}
Texts == {join(ts, <<" ">>) : ts \in SeqsUpTo(Tokens, MaxTokens)} \cup {<<" ">>}

\* The label_maps supplied to from_string.
SuppliedMaps == {<<>>, [c \in {"B"} |-> 0]}

\* Problems that were not made from text: those of InputProblems, with the
\* labels as they are or moved to the end of the letters and one past it.
LabelOffsets == {0, 23, 24}
ObjectProblems ==
    {from_configurations([i \in 1..Len(p.active) |-> [j \in 1..Len(p.active[i]) |-> p.active[i][j] + o]],
                         [i \in 1..Len(p.passive) |-> [j \in 1..Len(p.passive[i]) |-> p.passive[i][j] + o]])
       : p \in InputProblems, o \in LabelOffsets}

InitParse ==
    /\ task = "parse"
    /\ ProblemIdle
    /\ FindIdle
    /\ EncodeIdle
    /\ GenerateIdle
    /\ CacheIdle
    /\ SharedIdle
    /\ CandidateIdle
    /\ RunsIdle
    /\ \/ /\ encoding \in Texts \X Texts
          /\ label_map = <<>>
          /\ parsed = NoParse
       \/ /\ encoding \in {<<text>> : text \in Texts}
          /\ label_map \in SuppliedMaps
          /\ parsed = NoParse
       \/ /\ encoding = <<>>
          /\ label_map = <<>>
          /\ \E p \in ObjectProblems :
                 parsed = [call |-> "object", outcome |-> "Ok", value |-> p]
    /\ rendered = NoParse
    /\ reparsed = NoParse
    /\ permuted = <<>>

\* Configurations::from_string(encoding[1], &mut label_map)
FromString ==
    /\ task = "parse"
    /\ parsed.call = "none"
    /\ Len(encoding) = 1
    /\ LET res == from_string(encoding[1], label_map)
       IN  /\ parsed' = [call |-> "from_string", outcome |-> res.outcome,
                          value |-> res.data, supplied |-> label_map]
           /\ label_map' = res.label_map
    /\ UNCHANGED <<encoding, rendered, reparsed, permuted>>
    /\ UNCHANGED <<problemVars, findVars, encodeVars, generateVars>>
    /\ UNCHANGED cacheVars
    /\ UNCHANGED sharedVars
    /\ UNCHANGED candidateVars
    /\ UNCHANGED runVars

\* LclProblem::new(encoding[1], encoding[2])
New_LclProblem ==
    /\ task = "parse"
    /\ parsed.call = "none"
    /\ Len(encoding) = 2
    /\ LET res == LclProblem_new(encoding[1], encoding[2])
       IN  parsed' = [call |-> "new", outcome |-> res.outcome, value |-> res.value]
    /\ UNCHANGED <<encoding, label_map, rendered, reparsed, permuted>>
    /\ UNCHANGED <<problemVars, findVars, encodeVars, generateVars>>
    /\ UNCHANGED cacheVars
    /\ UNCHANGED sharedVars
    /\ UNCHANGED candidateVars
    /\ UNCHANGED runVars

\* problem.to_string()
Render ==
    /\ task = "parse"
    /\ parsed.call \in {"new", "object"}
    /\ parsed.outcome = "Ok"
    /\ rendered.call = "none"
    /\ LET res == to_string(parsed.value)
       IN  rendered' = [call |-> "to_string", outcome |-> res.outcome, value |-> res.value]
    /\ UNCHANGED <<encoding, label_map, parsed, reparsed, permuted>>
    /\ UNCHANGED <<problemVars, findVars, encodeVars, generateVars>>
    /\ UNCHANGED cacheVars
    /\ UNCHANGED sharedVars
    /\ UNCHANGED candidateVars
    /\ UNCHANGED runVars

\* from_stdin reads the rendered problem back.
FromStdin ==
    /\ task = "parse"
    /\ rendered.call = "to_string"
    /\ rendered.outcome = "Ok"
    /\ reparsed.call = "none"
    /\ LET res == parse_problem_str(rendered.value)
       IN  reparsed' = [call |-> "from_stdin", outcome |-> res.outcome, value |-> res.value]
    /\ UNCHANGED <<encoding, label_map, parsed, rendered, permuted>>
    /\ UNCHANGED <<problemVars, findVars, encodeVars, generateVars>>
    /\ UNCHANGED cacheVars
    /\ UNCHANGED sharedVars
    /\ UNCHANGED candidateVars
    /\ UNCHANGED runVars

\* active.get_permutations() and passive.get_permutations()
GetPermutations ==
    /\ task = "parse"
    /\ parsed.call \in {"new", "object"}
    /\ parsed.outcome = "Ok"
    /\ permuted = <<>>
    /\ permuted' = <<get_permutations(parsed.value.active),
                     get_permutations(parsed.value.passive)>>
    /\ UNCHANGED <<encoding, label_map, parsed, rendered, reparsed>>
    /\ UNCHANGED <<problemVars, findVars, encodeVars, generateVars>>
    /\ UNCHANGED cacheVars
    /\ UNCHANGED sharedVars
    /\ UNCHANGED candidateVars
    /\ UNCHANGED runVars

NextParse == FromString \/ New_LclProblem \/ Render \/ FromStdin \/ GetPermutations

SpecParse == InitParse /\ [][NextParse]_vars

------------------------------------------------------------------------------
(* Claims about the text format.                                            *)

\* A text that cannot be parsed: no token, or tokens of unequal width.
is_malformed(text) ==
    LET tokens == split_ascii_whitespace(text)
    IN  \/ tokens = <<>>
        \/ \E i \in 1..Len(tokens) : Len(tokens[i]) # Len(tokens[1])

\* C16: from_string, and so LclProblem::new, returns Err for a text with no
\* token or with tokens of unequal width, and from_string leaves the
\* label_map it was given as it was.
C16_MalformedTextIsErr ==
    /\ (parsed.call = "from_string" /\ is_malformed(encoding[1]))
           => (parsed.outcome = "Err" /\ label_map = parsed.supplied)
    /\ (parsed.call = "new" /\ (is_malformed(encoding[1]) \/ is_malformed(encoding[2])))
           => parsed.outcome = "Err"

\* LclProblem::new was given a passive text with tokens of unequal width
\* after a well-formed active text, and the call did not return.
C16_Witness ==
    /\ parsed.call = "new"
    /\ ~is_malformed(encoding[1])
    /\ split_ascii_whitespace(encoding[2]) = <<<<"A", "B">>, <<"A">>>>
    /\ parsed.outcome = "panicked"

\* The labels of both sides in reading order.
labels_in_order(p) == Flatten(p.active) \o Flatten(p.passive)

\* q is p with its labels renamed one to one: the same number of
\* configurations of the same widths in the same order, and two places hold
\* the same label in q exactly when they do in p.
is_renaming_of(q, p) ==
    /\ Len(q.active) = Len(p.active) /\ Len(q.passive) = Len(p.passive)
    /\ \A i \in 1..Len(p.active) : Len(q.active[i]) = Len(p.active[i])
    /\ \A i \in 1..Len(p.passive) : Len(q.passive[i]) = Len(p.passive[i])
    /\ \A i, j \in 1..Len(labels_in_order(p)) :
           (labels_in_order(q)[i] = labels_in_order(q)[j])
               <=> (labels_in_order(p)[i] = labels_in_order(p)[j])

\* A problem with two non-empty sides whose labels are in [0, k), k <= 26.
is_renderable(p) ==
    /\ ~contains_empty_partition(p)
    /\ \A l \in get_labels_set(p.active) \cup get_labels_set(p.passive) : l < 26

\* C17: a problem with two non-empty sides and at most 26 labels is rendered
\* by to_string, and parsing the two parts of the rendered text gives the
\* problem with its labels renamed, the configurations in the same order.
C17_RoundTripUpToRenaming ==
    /\ (rendered.call = "to_string" /\ is_renderable(parsed.value))
           => rendered.outcome = "Ok"
    /\ (reparsed.call = "from_stdin" /\ is_renderable(parsed.value))
           => (reparsed.outcome = "Ok" /\ is_renaming_of(reparsed.value, parsed.value))

\* A problem whose labels are the last letters, with two configurations on a
\* side, was rendered and read back with other labels.
C17_Witness ==
    /\ reparsed.call = "from_stdin"
    /\ is_renderable(parsed.value)
    /\ 25 \in get_labels_set(parsed.value.active)
    /\ Cardinality(get_labels_set(parsed.value.active)) >= 2
    /\ Len(parsed.value.passive) >= 2
    /\ reparsed.value # parsed.value

\* The distinct orderings of the labels of the configuration c.
orderings(c) ==
    {o \in [1..Len(c) -> SeqToSet(c)] :
        \A l \in SeqToSet(c) : Count(o, l) = Count(c, l)}

\* The part of get_permutations(data) that belongs to configuration i: the
\* groups of the configurations before it hold all their orderings.
RECURSIVE GroupStart(_, _)
GroupStart(data, i) ==
    IF i = 1 THEN 0
    ELSE GroupStart(data, i - 1) + Cardinality(orderings(data[i - 1]))

group(data, out, i) ==
    SubSeq(out, GroupStart(data, i) + 1,
           GroupStart(data, i) + Cardinality(orderings(data[i])))

\* Every group holds every ordering of its configuration exactly once.
groups_are_the_orderings(data, out) ==
    /\ Len(out) = GroupStart(data, Len(data) + 1)
    /\ \A i \in 1..Len(data) :
           /\ SeqToSet(group(data, out, i)) = orderings(data[i])
           /\ Len(group(data, out, i)) = Cardinality(orderings(data[i]))

\* Every group is in lexicographic order of the label vectors.
groups_are_lexicographic(data, out) ==
    \A i \in 1..Len(data) :
        \A k \in 1..(Len(group(data, out, i)) - 1) :
            VecLess(group(data, out, i)[k], group(data, out, i)[k + 1])

\* C18: get_permutations returns, configuration by configuration, every
\* distinct ordering of the labels exactly once, each group in lexicographic
\* order of the label vectors, also for a configuration that is not stored
\* in ascending order.
C18_PermutationGroupsLexicographic ==
    permuted # <<>> =>
        /\ groups_are_the_orderings(parsed.value.active, permuted[1])
        /\ groups_are_lexicographic(parsed.value.active, permuted[1])
        /\ groups_are_the_orderings(parsed.value.passive, permuted[2])
        /\ groups_are_lexicographic(parsed.value.passive, permuted[2])

\* The groups are complete and in configuration order, and lexicographic
\* for every configuration stored in ascending order.
PermutationGroupsLexicographicWhenAscending ==
    permuted # <<>> =>
        /\ groups_are_the_orderings(parsed.value.active, permuted[1])
        /\ groups_are_the_orderings(parsed.value.passive, permuted[2])
        /\ sort_labels_inside_configuration(parsed.value.active) = parsed.value.active
               => groups_are_lexicographic(parsed.value.active, permuted[1])
        /\ sort_labels_inside_configuration(parsed.value.passive) = parsed.value.passive
               => groups_are_lexicographic(parsed.value.passive, permuted[2])

\* LclProblem::new("AB", "BA") stores the passive configuration as [1, 0],
\* and its group starts with [1, 0].
C18_Witness ==
    /\ parsed.call = "new"
    /\ parsed.outcome = "Ok"
    /\ parsed.value.passive = <<<<1, 0>>>>
    /\ permuted # <<>>
    /\ permuted[2] = <<<<1, 0>>, <<0, 1>>>>

------------------------------------------------------------------------------
(* The caches: LclProblem::get_or_generate_normalized and the graphs'        *)
(* get_or_generate over one row of a cache.                                  *)

\* The most calls made with one cache
MaxCalls == 2

\* The batch a call computes for its params.
ProblemTable == [c \in GenClasses |-> generate_normalized(c[1], c[2], c[3])]

generate_batch(kind, params) ==
    IF kind = "problems" THEN ProblemTable[params] ELSE MultigraphTable[params]

\* A read that finds no row whatever the cache holds.
cache_read_always_misses(row) == [outcome |-> "Err", data |-> <<>>]

\* Cache::read: query_row is Err when no row has the key, and
\* bincode::deserialize(&data).unwrap() panics on a blob that is no batch.
cache_read(row) ==
    IF row.state = "absent" THEN [outcome |-> "Err", data |-> <<>>]
    ELSE IF row.state = "corrupt" THEN [outcome |-> "panicked", data |-> <<>>]
    ELSE [outcome |-> "Ok", data |-> row.data]

\* Cache::write: the INSERT fails when the key has a row (primary key), and
\* can fail on the database file.
cache_write_outcomes(row) ==
    IF row.state = "absent" THEN {"Ok", "Err"} ELSE {"Err"}

\* What a failed write does to the call: get_or_generate_normalized panics,
\* the graphs' get_or_generate reports it and goes on.
write_failure(kind) ==
    IF kind = "problems" THEN "panicked" ELSE "returned"

CacheKeys ==
    {<<"problems", c>> : c \in GenClasses} \cup {<<"graphs", c>> : c \in Classes}

InitCache ==
    /\ task = "cache"
    /\ ProblemIdle
    /\ FindIdle
    /\ EncodeIdle
    /\ GenerateIdle
    /\ ParseIdle
    /\ SharedIdle
    /\ CandidateIdle
    /\ RunsIdle
    /\ \E key \in CacheKeys :
          /\ cacheKind = key[1]
          /\ cacheParams = key[2]
          /\ cacheRow \in {NoCache,
                           [state |-> "absent", data |-> <<>>],
                           [state |-> "corrupt", data |-> <<>>],
                           [state |-> "valid", data |-> generate_batch(key[1], key[2])]}
    /\ cachePc = "call"
    /\ cacheOut = <<>>
    /\ cacheCalls = <<>>

\* get_or_generate_normalized up to `return result`: the read of the cache.
ReadCache ==
    /\ task = "cache"
    /\ cachePc = "call"
    /\ IF cacheRow = NoCache
       THEN /\ cachePc' = "generate"
            /\ cacheOut' = <<>>
            /\ cacheCalls' = Append(cacheCalls, "none")
       ELSE LET res == cache_read(cacheRow)
            IN  /\ cachePc' = CASE res.outcome = "Ok" -> "returned"
                                [] res.outcome = "Err" -> "generate"
                                [] OTHER -> "panicked"
                /\ cacheOut' = res.data
                /\ cacheCalls' = Append(cacheCalls, cacheRow.state)
    /\ UNCHANGED <<cacheKind, cacheParams, cacheRow>>
    /\ UNCHANGED <<problemVars, findVars, encodeVars, generateVars, parseVars>>
    /\ UNCHANGED sharedVars
    /\ UNCHANGED candidateVars
    /\ UNCHANGED runVars

\* The rest of get_or_generate_normalized: generate, update the cache, return.
GenerateAndWrite ==
    /\ task = "cache"
    /\ cachePc = "generate"
    /\ LET batch == generate_batch(cacheKind, cacheParams)
       IN  IF cacheRow = NoCache
           THEN /\ cachePc' = "returned"
                /\ cacheOut' = batch
                /\ cacheRow' = cacheRow
           ELSE \E written \in cache_write_outcomes(cacheRow) :
                    IF written = "Ok"
                    THEN /\ cacheRow' = [state |-> "valid", data |-> batch]
                         /\ cachePc' = "returned"
                         /\ cacheOut' = batch
                    ELSE /\ cacheRow' = cacheRow
                         /\ cachePc' = write_failure(cacheKind)
                         /\ cacheOut' = IF write_failure(cacheKind) = "returned"
                                        THEN batch ELSE <<>>
    /\ UNCHANGED <<cacheKind, cacheParams, cacheCalls>>
    /\ UNCHANGED <<problemVars, findVars, encodeVars, generateVars, parseVars>>
    /\ UNCHANGED sharedVars
    /\ UNCHANGED candidateVars
    /\ UNCHANGED runVars

\* The next call with the same cache and the same params.
CallAgain ==
    /\ task = "cache"
    /\ cachePc = "returned"
    /\ Len(cacheCalls) < MaxCalls
    /\ cachePc' = "call"
    /\ cacheOut' = <<>>
    /\ UNCHANGED <<cacheKind, cacheParams, cacheRow, cacheCalls>>
    /\ UNCHANGED <<problemVars, findVars, encodeVars, generateVars, parseVars>>
    /\ UNCHANGED sharedVars
    /\ UNCHANGED candidateVars
    /\ UNCHANGED runVars

NextCache == ReadCache \/ GenerateAndWrite \/ CallAgain

SpecCache == InitCache /\ [][NextCache]_vars

\* C19: with a cache supplied, a call whose read found no row for the key,
\* or a blob that cannot be deserialized, does not abort at the read, goes on
\* to recompute the batch, and returns the recomputed batch.
C19_MissingOrCorruptEntryFallsBack ==
    (/\ cachePc # "call"
     /\ cacheCalls # <<>>
     /\ cacheCalls[Len(cacheCalls)] \in {"absent", "corrupt"}) =>
        /\ cachePc \in {"generate", "returned"}
        /\ cachePc = "returned" => cacheOut = generate_batch(cacheKind, cacheParams)

\* The read of a row whose blob cannot be deserialized aborted the call.
C19_Witness ==
    /\ cacheKind = "problems"
    /\ cacheCalls = <<"corrupt">>
    /\ cachePc = "panicked"

\* The fallback holds for a missing row whenever the write succeeds.
MissingEntryFallsBack ==
    (cachePc # "call" /\ cacheCalls # <<>> /\ cacheCalls[Len(cacheCalls)] = "absent") =>
        /\ cachePc \in {"generate", "returned", "panicked"}
        /\ cachePc = "returned" => cacheOut = generate_batch(cacheKind, cacheParams)
        /\ cachePc = "panicked" => (cacheKind = "problems" /\ cacheRow.state = "absent")

------------------------------------------------------------------------------
(* The svg of a witness.                                                    *)

\* C20: a failure to write the svg of a witness is skipped for that witness
\* only: the closure that met it goes on (it is not left panicked), find is
\* not aborted, and once find has collected the results the witness is
\* among them.
C20_SvgFailureIsSkipped ==
    task = "find" =>
        \A p \in FindProblems :
            LET t == tasks[p] IN
            t.svg # "none" =>
                /\ t.pc # "panicked"
                /\ phase # "aborted"
                /\ phase = "collected" =>
                       \A k \in 1..Len(t.results) : <<p, t.results[k]>> \in SeqToSet(results)

\* File::create fails for the first witness of a problem while graphs and
\* another problem's closure remain: the witness was pushed, and the run is
\* aborted with nothing collected.
C20_Witness ==
    /\ task = "find"
    /\ outputSvg
    /\ phase = "aborted"
    /\ results = <<>>
    /\ \E p, q \in FindProblems :
          /\ tasks[p].svg = "File::create"
          /\ tasks[p].results = <<nLower>>
          /\ tasks[p].pc = "panicked"
          /\ SumSeq(graphs) > 1
          /\ tasks[q].pc = "graph_size_loop" /\ tasks[q].solved = <<>>

------------------------------------------------------------------------------
(* Runs that share one cache: every run makes calls of get_or_generate and   *)
(* get_or_generate_normalized one after the other, and the reads and writes  *)
(* of different runs interleave.                                             *)

\* The runs that share the cache.
Runs == {1, 2}

\* The keys the runs ask for: one class of problems, one class of graphs.
SharedKeys == {<<"problems", <<1, 1, 2>>>>, <<"graphs", <<3, 4, 2>>>>}

AbsentRow == [state |-> "absent", data |-> <<>>]
ValidRow(key) == [state |-> "valid", data |-> generate_batch(key[1], key[2])]

\* A call as the run's history keeps it.
NewCall(key, res) ==
    [key |-> key,
     read |-> res.outcome,      \* what Cache::read returned
     generated |-> FALSE,       \* whether the batch was computed
     writes |-> 0,              \* the calls of Cache::write
     written |-> "none",        \* what Cache::write returned
     out |-> res.data,          \* the batch returned
     done |-> res.outcome = "Ok"]

InitShared ==
    /\ task = "shared"
    /\ ProblemIdle
    /\ FindIdle
    /\ EncodeIdle
    /\ GenerateIdle
    /\ ParseIdle
    /\ CacheIdle
    /\ CandidateIdle
    /\ RunsIdle
    /\ \E f \in [SharedKeys -> {"absent", "valid"}] :
          /\ rows = [k \in SharedKeys |-> IF f[k] = "valid" THEN ValidRow(k) ELSE AbsentRow]
          /\ stored = [k \in SharedKeys |-> IF f[k] = "valid" THEN <<ValidRow(k).data>> ELSE <<>>]
    /\ runs = [r \in Runs |-> [pc |-> "idle", calls |-> <<>>]]

\* The call a run is in, or made last.
LastCall(run) == run.calls[Len(run.calls)]

\* Run r calls get_or_generate with the params of `key`: the read, and on a
\* hit the return of the stored batch.
SharedRead(r, key) ==
    /\ task = "shared"
    /\ runs[r].pc = "idle"
    /\ Len(runs[r].calls) < MaxCalls
    /\ LET res == cache_read(rows[key])
       IN  runs' = [runs EXCEPT ![r] =
               [pc |-> CASE res.outcome = "Ok" -> "idle"
                         [] res.outcome = "Err" -> "generate"
                         [] OTHER -> "panicked",
                calls |-> Append(runs[r].calls, NewCall(key, res))]]
    /\ UNCHANGED <<rows, stored>>
    /\ UNCHANGED <<problemVars, findVars, encodeVars, generateVars, parseVars, cacheVars>>
    /\ UNCHANGED candidateVars
    /\ UNCHANGED runVars

\* Run r, after a miss: generate, update the cache, return.
SharedGenerateAndWrite(r) ==
    /\ task = "shared"
    /\ runs[r].pc = "generate"
    /\ LET call == LastCall(runs[r])
           key == call.key
           batch == generate_batch(key[1], key[2])
           tried == [call EXCEPT !.generated = TRUE, !.writes = call.writes + 1]
       IN  \E written \in cache_write_outcomes(rows[key]) :
               IF written = "Ok"
               THEN /\ rows' = [rows EXCEPT ![key] = [state |-> "valid", data |-> batch]]
                    /\ stored' = [stored EXCEPT ![key] = IF @ = <<>> THEN <<batch>> ELSE @]
                    /\ runs' = [runs EXCEPT ![r] =
                           [pc |-> "idle",
                            calls |-> Append(SubSeq(runs[r].calls, 1, Len(runs[r].calls) - 1),
                                             [tried EXCEPT !.out = batch, !.done = TRUE,
                                                    !.written = "Ok"])]]
               ELSE /\ UNCHANGED <<rows, stored>>
                    /\ runs' = [runs EXCEPT ![r] =
                           IF write_failure(key[1]) = "returned"
                           THEN [pc |-> "idle",
                                 calls |-> Append(SubSeq(runs[r].calls, 1, Len(runs[r].calls) - 1),
                                                  [tried EXCEPT !.out = batch, !.done = TRUE,
                                                                !.written = "Err"])]
                           ELSE [pc |-> "panicked",
                                 calls |-> Append(SubSeq(runs[r].calls, 1, Len(runs[r].calls) - 1),
                                                  [tried EXCEPT !.written = "Err"])]]
    /\ UNCHANGED <<problemVars, findVars, encodeVars, generateVars, parseVars, cacheVars>>
    /\ UNCHANGED candidateVars
    /\ UNCHANGED runVars

NextShared ==
    \E r \in Runs :
        \/ \E key \in SharedKeys : SharedRead(r, key)
        \/ SharedGenerateAndWrite(r)

SpecShared == InitShared /\ [][NextShared]_vars

BothMissedAndWrote(key) ==
    \A r \in Runs :
        /\ runs[r].calls # <<>>
        /\ runs[r].calls[1].key = key
        /\ runs[r].calls[1].read = "Err"
        /\ runs[r].calls[1].writes = 1

\* C22: when two runs both miss on a key and both write their batch, the
\* cache holds one batch for the key afterwards, and both runs complete and
\* return their batch.
C22_ConcurrentWritesSerialized ==
    task = "shared" =>
        \A key \in SharedKeys :
            BothMissedAndWrote(key) =>
                /\ rows[key] = ValidRow(key) \/ \A r \in Runs : runs[r].calls[1].written = "Err"
                /\ \A r \in Runs :
                       /\ runs[r].calls[1].done
                       /\ runs[r].calls[1].out = generate_batch(key[1], key[2])

\* Both runs missed on the class of problems; the first write stored the
\* batch, the second was refused and its run did not return.
C22_Witness ==
    /\ task = "shared"
    /\ BothMissedAndWrote(<<"problems", <<1, 1, 2>>>>)
    /\ rows[<<"problems", <<1, 1, 2>>>>] = ValidRow(<<"problems", <<1, 1, 2>>>>)
    /\ \E r, q \in Runs :
          /\ runs[r].calls[1].written = "Ok" /\ runs[r].calls[1].done
          /\ runs[q].calls[1].written = "Err" /\ ~runs[q].calls[1].done
          /\ runs[q].pc = "panicked"

\* With the graphs' get_or_generate, which reports a refused write and goes
\* on, both runs return their batch and one batch is stored.
ConcurrentGraphWritesSerialized ==
    task = "shared" =>
        \A key \in SharedKeys :
            (key[1] = "graphs" /\ BothMissedAndWrote(key)) =>
                \A r \in Runs :
                    /\ runs[r].calls[1].done
                    /\ runs[r].calls[1].out = generate_batch(key[1], key[2])

------------------------------------------------------------------------------
(* The classes of problems.                                                 *)

\* The bijections of the labels 0..label_count-1, each a Vec indexed by label.
Bijections(label_count) ==
    {perm \in [1..label_count -> 0..(label_count - 1)] :
        \A i, j \in 1..label_count : perm[i] = perm[j] => i = j}

\* A side up to the order of its configurations and of the labels in them.
SideUpToOrder(data) == {sort_labels_inside_configuration(data)[i] : i \in 1..Len(data)}

\* p is q with its labels permuted and its configurations, and the labels
\* inside them, reordered.
is_equivalent(p, q, label_count) ==
    /\ Len(p.active) = Len(q.active) /\ Len(p.passive) = Len(q.passive)
    /\ \E perm \in Bijections(label_count) :
           /\ SideUpToOrder(map_labels(q.active, perm)) = SideUpToOrder(p.active)
           /\ SideUpToOrder(map_labels(q.passive, perm)) = SideUpToOrder(p.passive)

\* The lengths test_gen_normalized asserts.
NormalizedCounts == [c \in {<<1, 1, 1>>, <<1, 1, 2>>, <<2, 1, 2>>} |->
                        CASE c = <<1, 1, 1>> -> 1 [] c = <<1, 1, 2>> -> 2 [] OTHER -> 5]

\* C23: generate_normalized returns exactly one representative of every
\* class, under label permutation and reordering, of the purged problems of
\* get_or_generate, and nothing else; 1 problem for (1,1,1), 2 for (1,1,2)
\* and 5 for (2,1,2).
C23_OneRepresentativePerClass ==
    generated.class # NoClass =>
        LET c == generated.class
            ps == generated.problems
            purged == get_or_generate(c[1], c[2], c[3])
        IN  /\ \A k \in 1..Len(purged) :
                   Cardinality({i \in 1..Len(ps) : is_equivalent(ps[i], purged[k], c[3])}) = 1
            /\ \A i \in 1..Len(ps) :
                   \E k \in 1..Len(purged) : is_equivalent(ps[i], purged[k], c[3])
            /\ c \in DOMAIN NormalizedCounts => Len(ps) = NormalizedCounts[c]

\* The class (2, 1, 2): 7 purged problems in 5 classes.
C23_Witness ==
    /\ generated.class = <<2, 1, 2>>
    /\ Len(get_or_generate(2, 1, 2)) = 7
    /\ Len(generated.problems) = 5
    /\ \E i, j \in 1..7 :
          /\ i # j
          /\ is_equivalent(get_or_generate(2, 1, 2)[i], get_or_generate(2, 1, 2)[j], 2)

------------------------------------------------------------------------------
(* The CNF DIMACS text.                                                     *)

\* The number a token of digits, with or without a sign, stands for; -1 for
\* a token that is no number (the tokens here stand for other numbers).
RECURSIVE parse_digits(_, _)
parse_digits(token, value) ==
    LET digit == [c \in {"0", "1", "2", "3", "4", "5", "6", "7", "8", "9"} |->
                     CASE c = "0" -> 0 [] c = "1" -> 1 [] c = "2" -> 2 [] c = "3" -> 3
                       [] c = "4" -> 4 [] c = "5" -> 5 [] c = "6" -> 6 [] c = "7" -> 7
                       [] c = "8" -> 8 [] OTHER -> 9]
    IN  IF token = <<>> THEN value
        ELSE parse_digits(Tail(token), 10 * value + digit[Head(token)])

is_number(token) ==
    /\ token # <<>>
    /\ \A k \in 1..Len(token) : token[k] \in {"0", "1", "2", "3", "4", "5", "6", "7", "8", "9"}

\* The lines of a text that ends every line with a line feed.
lines_of(text) ==
    LET pieces == split(text, "\n")
    IN  SubSeq(pieces, 1, Len(pieces) - 1)

\* The problem line: p, cnf, the variable count and the clause count.
is_problem_line(line, variable_count, clause_count) ==
    LET tokens == split(line, " ")
    IN  /\ Len(tokens) = 4
        /\ tokens[1] = <<"p">>
        /\ tokens[2] = <<"c", "n", "f">>
        /\ is_number(tokens[3]) /\ parse_digits(tokens[3], 0) = variable_count
        /\ is_number(tokens[4]) /\ parse_digits(tokens[4], 0) = clause_count

\* A clause line: the literals of the clause in order, then 0.
is_clause_line(line, clause) ==
    LET tokens == split(line, " ")
    IN  /\ Len(tokens) = Len(clause) + 1
        /\ tokens[Len(tokens)] = <<"0">>
        /\ \A k \in 1..Len(clause) :
               IF clause[k] < 0
               THEN /\ Head(tokens[k]) = "-"
                    /\ is_number(Tail(tokens[k]))
                    /\ parse_digits(Tail(tokens[k]), 0) = -clause[k]
               ELSE /\ is_number(tokens[k])
                    /\ parse_digits(tokens[k], 0) = clause[k]

\* C24: the text of clauses_into_cnf_dimacs is a problem line made of p,
\* cnf, the variable count and the clause count separated by spaces, then
\* one line per clause with its literals in order and a final 0.
C24_CnfDimacsText ==
    dimacs # <<>> =>
        /\ dimacs[Len(dimacs)] = "\n"
        /\ Len(lines_of(dimacs)) = Len(clauses) + 1
        /\ is_problem_line(lines_of(dimacs)[1], variable_count_of(clauses), Len(clauses))
        /\ \A k \in 1..Len(clauses) : is_clause_line(lines_of(dimacs)[k + 1], clauses[k])

\* A text with more than nine clauses and a negative literal whose first
\* line has three tokens, the second of them cnf run together with the
\* variable count.
C24_Witness ==
    /\ dimacs # <<>>
    /\ Len(clauses) > 9
    /\ \E k \in 1..Len(clauses) : \E l \in SeqToSet(clauses[k]) : l < 0
    /\ Len(split(lines_of(dimacs)[1], " ")) = 3
    /\ SubSeq(split(lines_of(dimacs)[1], " ")[2], 1, 3) = <<"c", "n", "f">>
    /\ Len(split(lines_of(dimacs)[1], " ")[2]) > 3

\* The clause lines, and the count of lines, are as the format asks.
CnfDimacsClauseLines ==
    dimacs # <<>> =>
        /\ dimacs[Len(dimacs)] = "\n"
        /\ Len(lines_of(dimacs)) = Len(clauses) + 1
        /\ \A k \in 1..Len(clauses) : is_clause_line(lines_of(dimacs)[k + 1], clauses[k])

------------------------------------------------------------------------------
(* The label variables of an edge in the satisfying assignments.             *)

\* The clauses together with the literals made true.
WithLiterals(cs, literals) == ClauseSet(cs) \cup {{l} : l \in literals}

\* No satisfying assignment of the clauses makes all the literals true.
NoModelWith(cs, literals) == ~Satisfiable(WithLiterals(cs, literals))

\* In every satisfying assignment exactly one label variable of the edge is
\* true on the active side, exactly one on the passive side, for one label.
EdgeLabelForced(enc, cs, e) ==
    LET L == SeqToSet(enc.labels)
        lab_AP(l) == var_label(enc, "ActivePassive", e, l)
        lab_PA(l) == var_label(enc, "PassiveActive", e, l)
    IN  /\ NoModelWith(cs, {-lab_AP(l) : l \in L})
        /\ NoModelWith(cs, {-lab_PA(l) : l \in L})
        /\ \A l1 \in L : \A l2 \in L \ {l1} :
              /\ NoModelWith(cs, {lab_AP(l1), lab_AP(l2)})
              /\ NoModelWith(cs, {lab_PA(l1), lab_PA(l2)})
              /\ NoModelWith(cs, {lab_AP(l1), lab_PA(l2)})

\* The first label variable of the encoder.
first_label_variable(enc) ==
    Len(enc.graph.partition_a) * Len(enc.active_permutations)
        + Len(enc.graph.partition_b) * Len(enc.passive_permutations) + 1

\* A label variable occurs positively only in a two-literal clause whose
\* other literal is a negated permutation variable: no clause asks for at
\* least one label of an edge.
NoExplicitExactlyOne(enc, cs) ==
    \A k \in 1..Len(cs) : \A i \in 1..Len(cs[k]) :
        cs[k][i] >= first_label_variable(enc) =>
            /\ Len(cs[k]) = 2
            /\ \E j \in 1..2 : cs[k][j] < 0 /\ -cs[k][j] < first_label_variable(enc)

\* C25: in every satisfying assignment of the clauses of encode, each edge
\* has exactly one label l with lab_AP[e, l] true and exactly one label l'
\* with lab_PA[e, l'] true, and l = l', although no clause asks for exactly
\* one label variable. Stated of the clauses as encode returns them, before
\* they are solved or written out (nothing changes them afterwards).
C25_ExactlyOneLabelPerEdge ==
    (task = "encode" /\ clauses # <<>> /\ satResult = "none" /\ dimacs = <<>>) =>
        /\ \A e \in 0..(Len(graph.edges) - 1) : EdgeLabelForced(encoder, clauses, e)
        /\ NoExplicitExactlyOne(encoder, clauses)

\* Satisfiable clauses of a graph with several edges and a problem with
\* several labels.
C25_Witness ==
    /\ task = "encode" /\ clauses # <<>>
    /\ Len(graph.edges) >= 2
    /\ Len(encoder.labels) >= 2
    /\ Satisfiable(ClauseSet(clauses))

------------------------------------------------------------------------------
(* LclProblem::get_or_generate step by step: the two powersets, the lazy     *)
(* cartesian product, and for every pair the clones, purge's loop on the     *)
(* problem made of them, the filter and unique.                              *)

\* passive_configuration_powerset.as_ref().unwrap_or(&active_configuration_powerset)
passive_powerset_or_active(ps) ==
    IF ps.passive_configuration_powerset = "None"
    THEN ps.active_configuration_powerset
    ELSE ps.passive_configuration_powerset

\* The powersets get_or_generate builds: one when the degrees are equal.
build_powersets(active_degree, passive_degree, alphabet_length) ==
    [active_configuration_powerset |-> generate_powerset(active_degree, alphabet_length),
     passive_configuration_powerset |->
        IF active_degree = passive_degree THEN "None"
        ELSE generate_powerset(passive_degree, alphabet_length)]

\* Two powersets whatever the degrees.
build_powersets_independent(active_degree, passive_degree, alphabet_length) ==
    [active_configuration_powerset |-> generate_powerset(active_degree, alphabet_length),
     passive_configuration_powerset |-> generate_powerset(passive_degree, alphabet_length)]

\* The length of the cartesian product.
product_len(ps) ==
    Len(ps.active_configuration_powerset) * Len(passive_powerset_or_active(ps))

\* The pair the cartesian product yields after `taken` pairs: the passive
\* side runs fastest.
product_pair(ps, taken) ==
    LET pps == passive_powerset_or_active(ps)
    IN  <<ps.active_configuration_powerset[(taken \div Len(pps)) + 1],
          pps[(taken % Len(pps)) + 1]>>

\* A loop body that leaves the active side as it is.
purge_loop_body_passive_only(p) ==
    [active |-> p.active,
     passive |-> remove_configurations_containing_label(
                    p.passive, get_labels_set(p.passive) \ get_labels_set(p.active))]

\* The body of purge's while loop.
purge_loop_body(p) ==
    LET active_labels == get_labels_set(p.active)
        passive_labels == get_labels_set(p.passive)
        diffA == active_labels \ passive_labels
        diffP == passive_labels \ active_labels
    IN  [active |-> IF diffA # {}
                    THEN remove_configurations_containing_label(p.active, diffA)
                    ELSE p.active,
         passive |-> IF diffP # {}
                     THEN remove_configurations_containing_label(p.passive, diffP)
                     ELSE p.passive]

\* The condition of purge's while loop.
purge_loop_condition(p) == get_labels_set(p.active) # get_labels_set(p.passive)

\* A filter that lets the problems with an empty side through.
filter_map_unique_keeps_empty(seen, p) ==
    IF p \in SeqToSet(seen) THEN seen ELSE Append(seen, p)

\* filter_map's closure after purge, then unique(): the problem is yielded
\* when no side is empty and it was not yielded before.
filter_map_unique(seen, p) ==
    IF contains_empty_partition(p) \/ p \in SeqToSet(seen) THEN seen
    ELSE Append(seen, p)

InitCandidates ==
    /\ task = "candidates"
    /\ ProblemIdle
    /\ FindIdle
    /\ EncodeIdle
    /\ GenerateIdle
    /\ ParseIdle
    /\ CacheIdle
    /\ SharedIdle
    /\ RunsIdle
    /\ genArgs \in GenClasses
    /\ powersets = build_powersets(genArgs[1], genArgs[2], genArgs[3])
    /\ cursor = 0
    /\ candidate = NoProblem
    /\ cloned = NoProblem
    /\ iterations = 0
    /\ yielded = <<>>
    /\ candPc = "next"

\* The next pair of the product: from_configurations(active.clone(), passive.clone())
\* and the call of purge, up to the first test of its loop.
TakeCandidate ==
    /\ task = "candidates"
    /\ candPc = "next"
    /\ cursor < product_len(powersets)
    /\ LET pair == product_pair(powersets, cursor)
       IN  /\ candidate' = from_configurations(pair[1], pair[2])
           /\ cloned' = from_configurations(pair[1], pair[2])
    /\ iterations' = 0
    /\ candPc' = "purge"
    /\ UNCHANGED <<genArgs, powersets, cursor, yielded>>
    /\ UNCHANGED <<problemVars, findVars, encodeVars, generateVars, parseVars, cacheVars>>
    /\ UNCHANGED sharedVars
    /\ UNCHANGED runVars

\* One iteration of purge's loop on the candidate.
PurgeIteration ==
    /\ task = "candidates"
    /\ candPc = "purge"
    /\ purge_loop_condition(candidate)
    /\ candidate' = purge_loop_body(candidate)
    /\ iterations' = iterations + 1
    /\ UNCHANGED <<genArgs, powersets, cursor, cloned, yielded, candPc>>
    /\ UNCHANGED <<problemVars, findVars, encodeVars, generateVars, parseVars, cacheVars>>
    /\ UNCHANGED sharedVars
    /\ UNCHANGED runVars

\* purge's loop ends; the closure of filter_map and unique() see the problem.
FilterUnique ==
    /\ task = "candidates"
    /\ candPc = "purge"
    /\ ~purge_loop_condition(candidate)
    /\ yielded' = filter_map_unique(yielded, candidate)
    /\ cursor' = cursor + 1
    /\ candPc' = "next"
    /\ UNCHANGED <<genArgs, powersets, candidate, cloned, iterations>>
    /\ UNCHANGED <<problemVars, findVars, encodeVars, generateVars, parseVars, cacheVars>>
    /\ UNCHANGED sharedVars
    /\ UNCHANGED runVars

\* The product is exhausted: collect_vec() and the return.
CollectVec ==
    /\ task = "candidates"
    /\ candPc = "next"
    /\ cursor = product_len(powersets)
    /\ candPc' = "returned"
    /\ UNCHANGED <<genArgs, powersets, cursor, candidate, cloned, iterations, yielded>>
    /\ UNCHANGED <<problemVars, findVars, encodeVars, generateVars, parseVars, cacheVars>>
    /\ UNCHANGED sharedVars
    /\ UNCHANGED runVars

NextCandidates == TakeCandidate \/ PurgeIteration \/ FilterUnique \/ CollectVec

SpecCandidates == InitCandidates /\ [][NextCandidates]_vars

\* The loop of purge and the iterator run on: the thread is not suspended.
SpecCandidatesFair == SpecCandidates /\ WF_vars(NextCandidates)

\* A problem as two sets of configurations.
AsSets(p) == [active |-> SeqToSet(p.active), passive |-> SeqToSet(p.passive)]

\* purge(a, p) over all the pairs of the two powersets, the problems with an
\* empty side left out.
PurgedPairs(active_degree, passive_degree, alphabet_length) ==
    LET all == {purge(from_configurations(a, p)) :
                   a \in SeqToSet(generate_powerset(active_degree, alphabet_length)),
                   p \in SeqToSet(generate_powerset(passive_degree, alphabet_length))}
    IN  {q \in all : q.active # <<>> /\ q.passive # <<>>}

\* What get_or_generate returns from the given powersets.
problems_from(ps) ==
    LET purged == [c \in 1..product_len(ps) |->
                      LET pair == product_pair(ps, c - 1)
                      IN  purge(from_configurations(pair[1], pair[2]))]
    IN  unique(SelectSeq(purged, LAMBDA q : ~contains_empty_partition(q)))

\* test_gen_purged: the lengths asserted for the classes of GenClasses.
test_gen_purged ==
    {<< <<1, 1, 1>>, 1 >>, << <<1, 1, 2>>, 3 >>, << <<2, 1, 2>>, 7 >>, << <<2, 2, 2>>, 27 >>}

\* C26: get_or_generate(dA, dP, k) returns the deduplicated set of
\* purge(a, p) over all pairs of Powerset(dA, k) x Powerset(dP, k) without
\* the problems that have an empty side after purging; with dA = dP the one
\* shared powerset gives what two independent powersets give; and the
\* powersets are not modified by the purge of the clones.
C26_PurgedProductDeduplicated ==
    task = "candidates" =>
        /\ powersets = build_powersets(genArgs[1], genArgs[2], genArgs[3])
        /\ candPc = "returned" =>
              /\ SeqToSet(yielded) = PurgedPairs(genArgs[1], genArgs[2], genArgs[3])
              /\ \A i, j \in 1..Len(yielded) :
                    AsSets(yielded[i]) = AsSets(yielded[j]) => i = j
              /\ yielded = problems_from(
                    build_powersets_independent(genArgs[1], genArgs[2], genArgs[3]))
              /\ yielded = get_or_generate(genArgs[1], genArgs[2], genArgs[3])
              /\ \A t \in test_gen_purged : t[1] = genArgs => Len(yielded) = t[2]

\* get_or_generate(2, 2, 2) has returned: one powerset for both factors,
\* pairs that were purged to nothing, and problems met more than once.
C26_Witness ==
    /\ task = "candidates"
    /\ candPc = "returned"
    /\ genArgs = <<2, 2, 2>>
    /\ powersets.passive_configuration_powerset = "None"
    /\ Len(yielded) = 27
    /\ cursor = 49

\* The new side is the old one with some configurations taken out.
only_removed(new, old) == new = SelectSeq(old, LAMBDA c : c \in SeqToSet(new))

configuration_count(p) == Len(p.active) + Len(p.passive)

\* An iteration of purge's loop removes at least one configuration and
\* neither adds nor alters one.
PurgeIterationRemoves ==
    PurgeIteration =>
        /\ configuration_count(candidate') < configuration_count(candidate)
        /\ only_removed(candidate'.active, candidate.active)
        /\ only_removed(candidate'.passive, candidate.passive)

\* C29: purge terminates on every problem: each iteration of its loop that
\* starts with different active and passive label sets removes at least
\* one configuration, the loop only removes configurations, and it stops
\* after at most |Active| + |Passive| iterations.
C29_PurgeTerminates ==
    /\ [](task = "candidates" => iterations <= configuration_count(cloned))
    /\ [][PurgeIterationRemoves]_vars
    /\ ((task = "candidates" /\ candPc = "purge") ~> candPc = "next")

\* purge's loop has ended after two iterations: the first emptied one side,
\* the second the other.
C29_Witness ==
    /\ task = "candidates"
    /\ candPc = "purge"
    /\ iterations = 2
    /\ ~purge_loop_condition(candidate)
    /\ configuration_count(candidate) < configuration_count(cloned)

------------------------------------------------------------------------------
(* The permutation lists of the encoder.                                     *)

\* No element of the sequence occurs twice.
no_vector_twice(out) == \A i, j \in 1..Len(out) : out[i] = out[j] => i = j

\* The distinct orderings of the configurations of a side.
distinct_permutations(data) == UNION {orderings(data[i]) : i \in 1..Len(data)}

\* C28: the permutation lists SatEncoder::new stores hold every label
\* vector once, also when two configurations of a side are reorderings of
\* the same labels, so that their lengths p_A and p_P are the numbers of
\* distinct permutations across the configurations of the side.
C28_StoredPermutationsUnique ==
    (task = "parse" /\ permuted # <<>>) =>
        LET enc == SatEncoder_new(parsed.value, NoGraph, <<>>)
        IN  /\ enc.active_permutations = permuted[1]
            /\ enc.passive_permutations = permuted[2]
            /\ no_vector_twice(enc.active_permutations)
            /\ no_vector_twice(enc.passive_permutations)
            /\ Len(enc.active_permutations)
                  = Cardinality(distinct_permutations(parsed.value.active))
            /\ Len(enc.passive_permutations)
                  = Cardinality(distinct_permutations(parsed.value.passive))

\* LclProblem::new("AB BA", "AA"): the active configurations [0, 1] and
\* [1, 0] are reorderings of each other and the list holds four vectors,
\* [0, 1] and [1, 0] twice each.
C28_Witness ==
    /\ task = "parse"
    /\ parsed.call = "new"
    /\ parsed.outcome = "Ok"
    /\ parsed.value.active = << <<0, 1>>, <<1, 0>> >>
    /\ permuted # <<>>
    /\ permuted[1] = << <<0, 1>>, <<1, 0>>, <<1, 0>>, <<0, 1>> >>

\* The lists hold every vector once when no two configurations of a side
\* are reorderings of each other.
StoredPermutationsUniquePerConfiguration ==
    (task = "parse" /\ permuted # <<>>) =>
        /\ (\A i, j \in 1..Len(parsed.value.active) :
                orderings(parsed.value.active[i]) = orderings(parsed.value.active[j])
                    => i = j)
              => no_vector_twice(permuted[1])
        /\ (\A i, j \in 1..Len(parsed.value.passive) :
                orderings(parsed.value.passive[i]) = orderings(parsed.value.passive[j])
                    => i = j)
              => no_vector_twice(permuted[2])

------------------------------------------------------------------------------
(* The stats of the search driver.                                           *)

\* The problems that have a witness in the results.
ProblemsWithWitness(res) == {res[k][1] : k \in {j \in 1..Len(res) : res[j][2] # 0}}

\* C27: with --stats, "Found new lower bounds for X/Y problems" has X the
\* number of distinct problems with at least one witness and Y the number
\* of problems searched, under every combination of the flags all_graphs
\* and all_graph_sizes: a problem with several witnesses is counted once.
C27_StatsCountProblems ==
    (task = "find" /\ phase = "collected") =>
        statsLine = <<Cardinality(ProblemsWithWitness(results)), Cardinality(FindProblems)>>

\* Collected results in which a problem has two witnesses.
C27_Witness ==
    /\ task = "find"
    /\ phase = "collected"
    /\ \E p \in FindProblems : Len(WitnessesOf(tasks[p])) = 2
    /\ statsLine[1] > Cardinality(ProblemsWithWitness(results))

\* With neither flag a problem has at most one witness and the line counts
\* the problems.
StatsCountProblemsWithoutAllFlags ==
    (task = "find" /\ phase = "collected" /\ ~allGraphs /\ ~allSizes) =>
        statsLine = <<Cardinality(ProblemsWithWitness(results)), Cardinality(FindProblems)>>

------------------------------------------------------------------------------
(* Two runs of find on the same problems, graph sets and flags. The solver's *)
(* answer to a (problem, graph) pair is the same in both runs; the runs      *)
(* differ in the order of the graphs inside each list (the order in which    *)
(* the generator's threads sent their batches) and in the order in which     *)
(* the closures of the problems run.                                         *)

TwoRuns == {1, 2}

\* The most graph lists (sizes) of a run
MaxLists == 2

\* The graph lists of the runs: the number of graphs of each size.
RunLists == UNION {GraphLists(1, n_upper) : n_upper \in 1..MaxLists}

\* The solver's answers for the graphs of every list.
AnswerLists(gs) ==
    {a \in [1..Len(gs) -> UNION {[1..gs[i] -> Decisions] : i \in 1..Len(gs)}] :
        \A i \in 1..Len(gs) : Len(a[i]) = gs[i]}

\* The orders in which the graphs of every list can stand.
OrderLists(gs) ==
    {o \in [1..Len(gs) -> UNION {[1..gs[i] -> 1..gs[i]] : i \in 1..Len(gs)}] :
        \A i \in 1..Len(gs) :
            /\ Len(o[i]) = gs[i]
            /\ \A j, k \in 1..gs[i] : o[i][j] = o[i][k] => j = k}

\* The closure's state: `let mut results = vec![];`, `let mut found = 0;`
NewClosure == [pc |-> "pending", found |-> 0, results |-> <<>>]

\* 'encoder_loop over the answers of the graphs in the order of the list,
\* from the k-th graph on.
RECURSIVE encoder_loop(_, _, _, _, _)
encoder_loop(answers, n, all_graphs, k, st) ==
    IF k > Len(answers) THEN st
    ELSE LET result == solve(answers[k])
             pushed == [st EXCEPT !.found = st.found + 1,
                                  !.results = Append(st.results, n)]
         IN  IF result = "panic" THEN [st EXCEPT !.pc = "panicked"]
             ELSE IF ~is_witness(result)
             THEN encoder_loop(answers, n, all_graphs, k + 1, st)
             ELSE IF breaks_encoder_loop(all_graphs) THEN pushed
             ELSE encoder_loop(answers, n, all_graphs, k + 1, pushed)

\* 'graph_size_loop from the i-th list on.
RECURSIVE graph_size_loop(_, _, _, _)
graph_size_loop(lists, input, i, st) ==
    IF i > Len(lists) THEN st
    ELSE LET after == encoder_loop(lists[i], input.n_lower + i - 1, input.all_graphs, 1,
                                   [st EXCEPT !.found = 0])
         IN  IF after.pc = "panicked" THEN after
             ELSE IF breaks_graph_size_loop(after.found, input.all_graph_sizes) THEN after
             ELSE graph_size_loop(lists, input, i + 1, after)

\* The closure of flat_map for one problem, the graphs of every list in the
\* given order.
closure(input, order, p) ==
    LET lists == [i \in 1..Len(input.graphs) |->
                     [k \in 1..input.graphs[i] |-> input.answers[p][i][order[i][k]]]]
        st == graph_size_loop(lists, input, 1, NewClosure)
    IN  IF st.pc = "panicked" THEN st
        ELSE [st EXCEPT !.pc = "returned", !.results = push_nonproven(st.results)]

InitRuns ==
    /\ task = "runs"
    /\ ProblemIdle
    /\ FindIdle
    /\ EncodeIdle
    /\ GenerateIdle
    /\ ParseIdle
    /\ CacheIdle
    /\ SharedIdle
    /\ CandidateIdle
    /\ \E all_graphs \in BOOLEAN, all_graph_sizes \in BOOLEAN, gs \in RunLists :
          /\ \E answers \in [FindProblems -> AnswerLists(gs)] :
                runInput = [all_graphs |-> all_graphs, all_graph_sizes |-> all_graph_sizes,
                            n_lower |-> 1, graphs |-> gs, answers |-> answers]
          /\ \E o \in OrderLists(gs) :
                runOrder = <<[i \in 1..Len(gs) |-> [k \in 1..gs[i] |-> k]], o>>
    /\ runClosures = [r \in TwoRuns |-> [p \in FindProblems |-> NewClosure]]
    /\ runPhase = [r \in TwoRuns |-> "running"]
    /\ runResults = [r \in TwoRuns |-> <<>>]

\* A worker thread of run r takes problem p and runs its closure. The
\* second run starts when the first has ended.
RunClosure(r, p) ==
    /\ task = "runs"
    /\ runPhase[r] = "running"
    /\ r = 2 => runPhase[1] # "running"
    /\ runClosures[r][p].pc = "pending"
    /\ runClosures' = [runClosures EXCEPT ![r][p] = closure(runInput, runOrder[r], p)]
    /\ UNCHANGED <<runInput, runOrder, runPhase, runResults>>
    /\ UNCHANGED <<problemVars, findVars, encodeVars, generateVars, parseVars, cacheVars>>
    /\ UNCHANGED sharedVars
    /\ UNCHANGED candidateVars

\* collect() of run r: every closure has returned.
CollectRun(r) ==
    /\ task = "runs"
    /\ runPhase[r] = "running"
    /\ \A p \in FindProblems : runClosures[r][p].pc = "returned"
    /\ runResults' = [runResults EXCEPT ![r] = FlatMap(runClosures[r], FindProblems)]
    /\ runPhase' = [runPhase EXCEPT ![r] = "collected"]
    /\ UNCHANGED <<runInput, runOrder, runClosures>>
    /\ UNCHANGED <<problemVars, findVars, encodeVars, generateVars, parseVars, cacheVars>>
    /\ UNCHANGED sharedVars
    /\ UNCHANGED candidateVars

\* A closure of run r panicked: the panic leaves find, nothing is collected.
AbortRun(r) ==
    /\ task = "runs"
    /\ runPhase[r] = "running"
    /\ \E p \in FindProblems : runClosures[r][p].pc = "panicked"
    /\ runPhase' = [runPhase EXCEPT ![r] = "aborted"]
    /\ UNCHANGED <<runInput, runOrder, runClosures, runResults>>
    /\ UNCHANGED <<problemVars, findVars, encodeVars, generateVars, parseVars, cacheVars>>
    /\ UNCHANGED sharedVars
    /\ UNCHANGED candidateVars

NextRuns ==
    \/ \E r \in TwoRuns, p \in FindProblems : RunClosure(r, p)
    \/ \E r \in TwoRuns : CollectRun(r)
    \/ \E r \in TwoRuns : AbortRun(r)

SpecRuns == InitRuns /\ [][NextRuns]_vars

\* Both runs have ended.
BothRunsEnded == task = "runs" /\ \A r \in TwoRuns : runPhase[r] # "running"

\* C30: the multiset of (problem, n) results does not depend on the order
\* of the graphs inside each list nor on the scheduling of the problems:
\* two runs on the same problems, graph sets and flags produce the same
\* multiset of results.
C30_ResultsDeterministic ==
    BothRunsEnded =>
        /\ runPhase[1] = runPhase[2]
        /\ SameElements(runResults[1], runResults[2])

\* One list with an UNSAT graph and a graph on which the solver fails,
\* all_graphs off: the run that meets the UNSAT graph first has collected a
\* witness, the run that meets the other graph first was aborted.
C30_Witness ==
    /\ BothRunsEnded
    /\ ~runInput.all_graphs
    /\ runOrder[1] # runOrder[2]
    /\ runPhase[1] = "collected"
    /\ \E k \in 1..Len(runResults[1]) : runResults[1][k][2] # 0
    /\ runPhase[2] = "aborted"
    /\ runResults[2] = <<>>

\* The solver answers every pair of the runs with SAT or UNSAT.
SolverAlwaysAnswers ==
    \A p \in FindProblems : \A i \in 1..Len(runInput.graphs) :
        \A g \in 1..runInput.graphs[i] : runInput.answers[p][i][g] # "Err"

\* When the solver answers every pair both runs collect the same multiset.
ResultsDeterministicWhenSolverAnswers ==
    (BothRunsEnded /\ SolverAlwaysAnswers) =>
        /\ runPhase[1] = "collected"
        /\ runPhase[2] = "collected"
        /\ SameElements(runResults[1], runResults[2])
====
